---- MODULE Spec2Model ----
(***************************************************************************)
(* Model of the daemon orchestrator of mullvad-daemon (src/lib.rs): the    *)
(* event bus, the execution state, the target state, the reconnect job,    *)
(* the tunnel parameter generator bridge and the event loop of run().      *)
(*                                                                         *)
(* The tunnel state machine, the account manager, the relay selector, the  *)
(* settings persister and the API runtime are collaborators: what they     *)
(* return is drawn nondeterministically, what is sent to them is recorded. *)
(* The variables sent, reply, notified, settings_ops, call_ops, job_ops,   *)
(* api_ops and last_event record what the most recently handled event     *)
(* did; they are reset by every handler.                                   *)
(*                                                                         *)
(* Spec runs the lifecycle commands, the tunnel transitions and the device *)
(* events; SpecSettings runs the settings commands on a running daemon;    *)
(* SpecDevices runs RemoveDevice and its spawned task; SpecBus runs the    *)
(* two kinds of senders against the closing of the bus.                    *)
(***************************************************************************)
EXTENDS Integers, Sequences, FiniteSets, TLC

\* ------------------------------------------------------------------ bounds
MaxQueue == 2
MaxEvents == 3

\* ------------------------------------------------------- program constants
WG_RECONNECT_DELAY == 240
AUTH_FAILED_RECONNECT_DELAY == 60

VARIABLES
    pc,                     \* position of run(): "start", "loop", "exited", "done"
    queue,                  \* events on the bus, oldest first
    bus_open,               \* some strong DaemonCommandSender is still alive
    state,                  \* Daemon.state: DaemonExecutionState
    tunnel_state,           \* Daemon.tunnel_state
    target_state,           \* Daemon.target_state (in-memory value)
    target_locked,          \* PersistentTargetState locked by PrepareRestart
    settings,               \* Daemon.settings
    device,                 \* account manager's device data ("None" = logged out)
    account_history,        \* Daemon.account_history
    reconnection_job,       \* Daemon.reconnection_job: handle of the job scheduled last
    reconnect_tasks,        \* reconnect futures spawned on the runtime and still asleep
    last_generated_relays,  \* Daemon.last_generated_relays
    shutdown_tasks,         \* Daemon.shutdown_tasks (the factory reset task)
    gen,                    \* the tunnel thread's generate() call
    exit_reason,            \* why the loop of run() was left
    fr,                     \* factory reset: steps attempted, steps failed, reply
    ntrans,                 \* number of tunnel transitions placed on the bus
    nevents,                \* number of events produced so far
    listener_log,           \* ids of the transitions notified to the listener
    remove_tasks,           \* the tasks spawned by on_remove_device, in spawn order
    last_send,              \* the latest send whose result was observed, and that result
    tunnel_machine,         \* the tunnel machine: its exclusion list, its pending SetExcludedApps
    split_calls,            \* the split-tunnel updates handled so far, by reply channel:
                            \* the command, its update, the settings it was built from, how far it
                            \* got and the calls made for it, in order
    inactivity_timer,       \* the API inactivity timer: "running" or "stopped"
    last_event,             \* the event handled last
    sent,                   \* tunnel commands sent by the last handler
    reply,                  \* reply sent by the last handler
    notified,               \* listener notifications made by the last handler
    settings_ops,           \* calls made by the last settings command, in the order of the code
    call_ops,               \* calls made by the last device event or PrepareRestart, in that order
    job_ops,                \* runtime calls on reconnect jobs made by the last handler
    api_ops                 \* API availability/service calls of the last handler

vars == <<pc, queue, bus_open, state, tunnel_state, target_state, target_locked,
          settings, device, account_history, reconnection_job, reconnect_tasks,
          last_generated_relays, shutdown_tasks, gen, exit_reason, fr,
          ntrans, nevents, listener_log, remove_tasks, last_send,
          tunnel_machine, split_calls, inactivity_timer,
          last_event, sent, reply, notified, settings_ops, call_ops, job_ops, api_ops>>

\* ------------------------------------------------------------- value sets
TargetStates == {"Secured", "Unsecured"}

ExecutionStates == {"Running", "Exiting", "Finished"}

TunnelTypes == {"Wireguard", "OpenVpn"}

ErrorCauses == {"AuthFailed", "Other"}

\* TunnelStateTransition: kind and its payload (tunnel type or error cause)
Transitions ==
    {[kind |-> "Disconnected", arg |-> "-"], [kind |-> "Disconnecting", arg |-> "-"]}
    \cup {[kind |-> "Connecting", arg |-> t] : t \in TunnelTypes}
    \cup {[kind |-> "Connected", arg |-> t] : t \in TunnelTypes}
    \cup {[kind |-> "Error", arg |-> c] : c \in ErrorCauses}

AccountTokens == {"acct1", "acct2"}

\* the account the daemon is logged in to when it starts
InitialAccount == "acct1"

\* DaemonCommand variants of the model, with their arguments
Commands ==
    {<<"SetTargetState", t>> : t \in TargetStates}
    \cup {<<"Reconnect", "-">>, <<"Shutdown", "-">>,
          <<"PrepareRestart", "-">>, <<"FactoryReset", "-">>}

DeviceEvents ==
    {<<"Login", a>> : a \in AccountTokens}
    \cup {<<"Logout", "-">>, <<"Revoked", "-">>, <<"RotatedKey", "-">>, <<"Updated", "-">>}

\* retry_attempt of generate(): it only feeds the relay selector, whose
\* result is drawn from SelectorResults
RetryAttempts == {0}

SelectorResults ==
    {"NormalWireguard", "NormalOpenVpn", "CustomOk", "CustomUnresolved",
     "NoBridge", "NoRelay"}

NoEvent == [type |-> "None", name |-> "-", arg |-> "-", id |-> 0]

TransitionEvent(t, n) ==
    [type |-> "TunnelStateTransition", name |-> t.kind, arg |-> t.arg, id |-> n]

CommandEvent(c) == [type |-> "Command", name |-> c[1], arg |-> c[2], id |-> 0]

TriggerShutdownEvent == [type |-> "TriggerShutdown", name |-> "-", arg |-> "-", id |-> 0]

DeviceEventEvent(d) == [type |-> "DeviceEvent", name |-> d[1], arg |-> d[2], id |-> 0]

GenerateEvent(n) ==
    [type |-> "GenerateTunnelParameters", name |-> "-", arg |-> "-", id |-> n]

BoolOf(b) == b = "true"

StrOf(b) == IF b THEN "true" ELSE "false"

Last(s) == s[Len(s)]

\* --------------------------------------------------- DaemonExecutionState
\* variant: the tunnel state is not consulted
shutdown_always_exiting(self, ts) ==
    IF self = "Running" THEN "Exiting" ELSE self

shutdown(self, ts) ==
    IF self = "Running"
    THEN IF ts.kind = "Disconnected" THEN "Finished" ELSE "Exiting"
    ELSE self

\* variant: a Disconnected tunnel also finishes a running daemon
disconnected_any(self) == IF self \in {"Exiting", "Running"} THEN "Finished" ELSE self

disconnected(self) == IF self = "Exiting" THEN "Finished" ELSE self

\* variant: Exiting still counts as running
is_running_unless_finished(self) == self # "Finished"

is_running(self) == self = "Running"

\* ------------------------------------------------------------ TunnelState
is_connected(ts) == ts.kind = "Connected"

is_disconnected(ts) == ts.kind = "Disconnected"

is_in_error_state(ts) == ts.kind = "Error"

DisconnectedState == [kind |-> "Disconnected", arg |-> "-", location |-> "-"]

\* Daemon::build_location_from_relay: None without relays, else from the relays
build_location_from_relay(relays) == relays

\* variant: Disconnecting is mirrored as Disconnected
compose_tunnel_state_collapsed(tr, relays) ==
    IF tr.kind \in {"Connecting", "Connected"}
    THEN [kind |-> tr.kind, arg |-> tr.arg, location |-> build_location_from_relay(relays)]
    ELSE IF tr.kind = "Disconnecting"
         THEN [kind |-> "Disconnected", arg |-> "-", location |-> "-"]
         ELSE [kind |-> tr.kind, arg |-> tr.arg, location |-> "-"]

\* the match of handle_tunnel_state_transition composing the new TunnelState
compose_tunnel_state(tr, relays) ==
    IF tr.kind \in {"Connecting", "Connected"}
    THEN [kind |-> tr.kind, arg |-> tr.arg, location |-> build_location_from_relay(relays)]
    ELSE [kind |-> tr.kind, arg |-> tr.arg, location |-> "-"]

\* variant: a Connecting tunnel counts as connected
get_connected_tunnel_type_or_connecting(ts) ==
    IF ts.kind \in {"Connected", "Connecting"} THEN ts.arg ELSE "None"

get_connected_tunnel_type(ts) == IF ts.kind = "Connected" THEN ts.arg ELSE "None"

\* variant: only a Connected tunnel has a target tunnel type
get_target_tunnel_type_connected(ts) == IF ts.kind = "Connected" THEN ts.arg ELSE "None"

get_target_tunnel_type(ts) ==
    IF ts.kind \in {"Connected", "Connecting"} THEN ts.arg ELSE "None"

\* variant: every cause of the error state counts
is_auth_failed_any_cause(ts) == ts.kind = "Error"

\* `if let ErrorStateCause::AuthFailed(_) = error_state.cause()` on TunnelState::Error
is_auth_failed(ts) == ts.kind = "Error" /\ ts.arg = "AuthFailed"

\* ------------------------------------------------------------ event bus
\* mpsc::UnboundedReceiver::next: the oldest event
bus_next(q) == Head(q)

\* a send reaches the queue while a strong sender and the receiver exist
bus_accepts == bus_open /\ pc # "done"

\* mpsc::UnboundedSender::unbounded_send: the event is queued unless the
\* receiver is gone
unbounded_send(receiver_alive, q, ev) ==
    IF receiver_alive THEN [ok |-> TRUE, queue |-> Append(q, ev)]
    ELSE [ok |-> FALSE, queue |-> q]

\* DaemonCommandSender::send, on a strong sender
command_sender_send(receiver_alive, q, ev) ==
    LET r == unbounded_send(receiver_alive, q, ev)
    IN  [result |-> IF r.ok THEN "Ok" ELSE "DaemonUnavailable", queue |-> r.queue]

\* variant: the weak reference is not consulted
event_sender_send_no_upgrade(strong_alive, receiver_alive, q, ev) ==
    LET r == unbounded_send(receiver_alive, q, ev)
    IN  [result |-> IF r.ok THEN "Ok" ELSE "Err", queue |-> r.queue]

\* DaemonEventSender::send: upgrade the weak reference, then unbounded_send
event_sender_send(strong_alive, receiver_alive, q, ev) ==
    IF strong_alive
    THEN LET r == unbounded_send(receiver_alive, q, ev)
         IN  [result |-> IF r.ok THEN "Ok" ELSE "Err", queue |-> r.queue]
    ELSE [result |-> "Err", queue |-> q]

NoSend == [by |-> "None", n |-> 0, result |-> "None"]

\* variant: the loop is also left while Exiting
loop_break_not_running(st) == st # "Running"

\* `if self.state == Finished { break }` of run()
loop_break(st) == st = "Finished"


\* --------------------------------------------------------- tunnel commands
Connect == <<"Connect", "-">>

Disconnect == <<"Disconnect", "-">>

AllowLan(b) == <<"AllowLan", b>>

BlockWhenDisconnected(b) == <<"BlockWhenDisconnected", b>>

\* ------------------------------------------------------------ target state
\* variant: the persisted target state is used whatever auto_connect is
start_target_state_persisted(auto_connect, persisted) == persisted

\* Daemon::start: the target state the daemon is constructed with
start_target_state(auto_connect, persisted) ==
    IF auto_connect THEN "Secured" ELSE persisted

\* PersistentTargetState::set: the in-memory value after set(new_state)
target_state_set(cur, new_state) == new_state

\* variant: the error state of the tunnel is not consulted
set_target_state_no_error_check(new_state, cur, ts) ==
    IF new_state # cur
    THEN LET t == target_state_set(cur, new_state)
         IN  [initiated |-> TRUE, target |-> t,
              cmds |-> IF t = "Secured" THEN <<Connect>> ELSE <<Disconnect>>]
    ELSE [initiated |-> FALSE, target |-> cur, cmds |-> <<>>]

\* variant: the tunnel command is chosen from the previous target state
set_target_state_match_old(new_state, cur, ts) ==
    IF new_state # cur \/ is_in_error_state(ts)
    THEN LET t == target_state_set(cur, new_state)
         IN  [initiated |-> TRUE, target |-> t,
              cmds |-> IF cur = "Secured" THEN <<Connect>> ELSE <<Disconnect>>]
    ELSE [initiated |-> FALSE, target |-> cur, cmds |-> <<>>]

\* Daemon::set_target_state: whether a change is initiated, the new target
\* and the tunnel commands sent
set_target_state(new_state, cur, ts) ==
    IF new_state # cur \/ is_in_error_state(ts)
    THEN LET t == target_state_set(cur, new_state)
         IN  [initiated |-> TRUE, target |-> t,
              cmds |-> IF t = "Secured" THEN <<Connect>> ELSE <<Disconnect>>]
    ELSE [initiated |-> FALSE, target |-> cur, cmds |-> <<>>]

\* variant: Connect whatever the target
reconnect_tunnel_always(target) == <<Connect>>

\* Daemon::reconnect_tunnel: Connect iff the target is Secured
reconnect_tunnel(target) == IF target = "Secured" THEN <<Connect>> ELSE <<>>

\* variant: the error state of the tunnel is not consulted
on_reconnect_issued_secured_only(target, ts) == target = "Secured"

\* Daemon::on_reconnect: the condition under which Connect is sent
on_reconnect_issued(target, ts) == target = "Secured" \/ is_in_error_state(ts)

\* ApiAvailabilityHandle: the inactivity timer after the calls of a handler
\* (reset_inactivity_timer arms it anew, stop_inactivity_timer cancels it)
timer_after(timer, ops) ==
    LET calls == SelectSeq(ops, LAMBDA o : o \in {"reset_inactivity_timer",
                                                  "stop_inactivity_timer"})
    IN  IF calls = <<>> THEN timer
        ELSE IF calls[Len(calls)] = "reset_inactivity_timer" THEN "running"
        ELSE "stopped"

\* Daemon::connect_tunnel resumes the API background work before sending
ApiOpsOf(cmds) ==
    IF \E i \in 1..Len(cmds) : cmds[i] = Connect THEN <<"resume_background">> ELSE <<>>

\* --------------------------------------------------------- reconnect job
\* reconnection_job = None
NoJob == 0

\* an id no sleeping task carries: the identity of a newly spawned future
fresh_task_id(tasks) ==
    CHOOSE i \in 1..(Cardinality(tasks) + 1) : \A t \in tasks : t.id # i

\* no call on the runtime yet
NoJobOps(job, tasks) == [job |-> job, tasks |-> tasks, ops |-> <<>>]

\* job.abort(): what it finds, a future still asleep or one that completed
abort_op(job, tasks) ==
    IF \E t \in tasks : t.id = job THEN "abort_pending" ELSE "abort_completed"

\* variant: the handle is taken but the job is not aborted
unschedule_reconnect_no_abort(job, tasks) == NoJobOps(NoJob, tasks)

\* Daemon::unschedule_reconnect: take the handle and abort its job; aborting
\* a future that has completed does nothing
unschedule_reconnect(job, tasks) ==
    IF job = NoJob
    THEN NoJobOps(NoJob, tasks)
    ELSE [job |-> NoJob,
          tasks |-> {t \in tasks : t.id # job},
          ops |-> <<abort_op(job, tasks)>>]

\* variant: the job scheduled before is left alone
schedule_reconnect_no_unschedule(job, tasks, delay) ==
    LET id == fresh_task_id(tasks)
    IN  [job |-> id,
         tasks |-> tasks \cup {[id |-> id, delay |-> delay]},
         ops |-> <<"spawn">>]

\* Daemon::schedule_reconnect: unschedule, spawn the delayed Reconnect and
\* keep its abort handle
schedule_reconnect(job, tasks, delay) ==
    LET u == unschedule_reconnect(job, tasks)
        id == fresh_task_id(u.tasks)
    IN  [job |-> id,
         tasks |-> u.tasks \cup {[id |-> id, delay |-> delay]},
         ops |-> u.ops \o <<"spawn">>]

\* ------------------------------------------------------- factory reset
\* variant: an error already recorded is kept
record_error_keep_first(last_error, ok, err) ==
    IF ok \/ last_error # "Ok" THEN last_error ELSE err

\* on_factory_reset: `last_error = Err(..)` after a failed step
record_error(last_error, ok, err) == IF ok THEN last_error ELSE err

NoFactoryReset == [attempted |-> <<>>, failed |-> <<>>, reply |-> "None"]

\* variant: the log directory is cleared before the cache directory
factory_reset_task_steps_logs_first == <<"clear_logs", "clear_cache">>

\* the shutdown task of on_factory_reset: the steps it runs before replying
factory_reset_task_steps == <<"clear_cache", "clear_logs">>

\* ------------------------------------------------------ account history
\* AccountHistory::set: the remembered token is written on login; a failure
\* of the write is only logged by the caller
account_history_set(cur, token) == token

\* ------------------------------------------------------- device removal
DeviceIds == {"d1", "d2", "d3"}

\* a Device as the API lists it
ListedDevice(id) == [id |-> id, name |-> "listed"]

\* the Device built when the list does not contain the removed id
UnknownDevice(id) == [id |-> id, name |-> "unknown device"]

\* the lists list_devices returns: the devices of an account, each id once
DeviceLists ==
    {<<ListedDevice("d2")>>,
     <<ListedDevice("d3"), ListedDevice("d1")>>,
     <<ListedDevice("d1"), ListedDevice("d2"), ListedDevice("d3")>>,
     <<ListedDevice("d2"), ListedDevice("d1"), ListedDevice("d3")>>}

\* devices.iter().position(|device| device.id == device_id); 0 is None
position(devices, id) ==
    IF \E i \in 1..Len(devices) : devices[i].id = id
    THEN CHOOSE i \in 1..Len(devices) :
            /\ devices[i].id = id
            /\ \A j \in 1..(i - 1) : devices[j].id # id
    ELSE 0

\* variant: the element is returned and the list is left as it was
swap_remove_copy(devices, index) == [removed |-> devices[index], rest |-> devices]

\* Vec::swap_remove: the element is replaced by the last one
swap_remove(devices, index) ==
    [removed |-> devices[index],
     rest |-> [i \in 1..(Len(devices) - 1) |->
                 IF i = index THEN devices[Len(devices)] ELSE devices[i]]]

\* the task of on_remove_device once the removal succeeded: one
\* RemoveDeviceEvent, then the reply
remove_device_finish(token, devices, device_id) ==
    LET index == position(devices, device_id)
        r == IF index # 0 THEN swap_remove(devices, index)
             ELSE [removed |-> UnknownDevice(device_id), rest |-> devices]
    IN  <<[op |-> "notify_remove_device_event",
           arg |-> [account_token |-> token, removed_device |-> r.removed,
                    new_devices |-> r.rest]],
          [op |-> "reply", arg |-> "Ok"]>>

\* ------------------------------------------------- parameter generation
\* variant: every selector error is reported as NoMatchingRelay
generate_reply_one_error(dev, sel) ==
    IF dev = "None" THEN "NoReply"
    ELSE CASE sel = "CustomOk" -> "Ok"
           [] sel = "CustomUnresolved" -> "CustomTunnelHostResultionError"
           [] sel = "NormalWireguard" -> "Ok"
           [] sel = "NormalOpenVpn" -> "Ok"
           [] OTHER -> "NoMatchingRelay"

\* handle_generate_tunnel_parameters: what is sent on the reply channel
\* ("NoReply": the handler returns without sending)
generate_reply(dev, sel) ==
    IF dev = "None" THEN "NoReply"
    ELSE CASE sel = "CustomOk" -> "Ok"
           [] sel = "CustomUnresolved" -> "CustomTunnelHostResultionError"
           [] sel = "NormalWireguard" -> "Ok"
           [] sel = "NormalOpenVpn" -> "Ok"
           [] sel = "NoBridge" -> "NoMatchingBridgeRelay"
           [] OTHER -> "NoMatchingRelay"

\* variant: a custom tunnel is recorded as well
generate_relays_custom(dev, sel, relays) ==
    IF dev = "None" THEN relays
    ELSE CASE sel = "NormalWireguard" -> "WireGuard"
           [] sel = "NormalOpenVpn" -> "OpenVpn"
           [] sel = "CustomOk" -> "Custom"
           [] OTHER -> relays

\* create_tunnel_parameters: last_generated_relays after the request
generate_relays(dev, sel, relays) ==
    IF dev = "None" THEN relays
    ELSE CASE sel = "NormalWireguard" -> "WireGuard"
           [] sel = "NormalOpenVpn" -> "OpenVpn"
           [] OTHER -> relays

\* MullvadTunnelParametersGenerator::generate: result of response_rx.recv()
generate_recv(r) == IF r = "NoReply" THEN "NoMatchingRelay" ELSE r

GenIdle == [status |-> "idle", n |-> 0, result |-> "-", why |-> "-"]

\* variant: recv() does not see the request being dropped
generate_discarded_still_blocked(g) == g

\* generate() when its request is dropped unanswered with the receiver:
\* response_tx is gone, recv() fails and the call returns
generate_discarded(g) ==
    IF g.status = "waiting"
    THEN [g EXCEPT !.status = "returned",
                   !.result = generate_recv("NoReply"),
                   !.why = "discarded"]
    ELSE g

\* ------------------------------------------------------------------ Init
BoolFields ==
    {"allow_lan", "auto_connect", "block_when_disconnected", "show_beta_releases",
     "enable_ipv6"}

\* fields holding a structure or an option: the default or a custom value
OtherFields ==
    {"dns_options", "wireguard_mtu", "wireguard_rotation_interval", "openvpn_mssfix",
     "relay_settings", "bridge_settings", "bridge_state", "obfuscation_settings"}

SettingsFields == BoolFields \cup OtherFields

FieldValues(f) == IF f \in BoolFields THEN BOOLEAN ELSE {"default", "custom"}

\* SplitTunnelSettings::default()
NoSplitTunnel == [enable_exclusions |-> FALSE, apps |-> {}]

DefaultSettings ==
    [f \in SettingsFields \cup {"split_tunnel"} |->
       IF f = "split_tunnel" THEN NoSplitTunnel
       ELSE IF f \in BoolFields THEN FALSE ELSE "default"]

Init ==
    /\ pc = "start"
    /\ queue = <<>>
    /\ bus_open = TRUE
    /\ state = "Running"
    /\ tunnel_state = DisconnectedState
    /\ \E b \in BOOLEAN : settings = [DefaultSettings EXCEPT !.auto_connect = b]
    /\ \E persisted \in TargetStates :
         target_state = start_target_state(settings.auto_connect, persisted)
    /\ target_locked = FALSE
    /\ device = InitialAccount
    /\ account_history = device
    /\ reconnection_job = NoJob
    /\ reconnect_tasks = {}
    /\ last_generated_relays = "None"
    /\ shutdown_tasks = <<>>
    /\ gen = GenIdle
    /\ exit_reason = "none"
    /\ fr = NoFactoryReset
    /\ ntrans = 0
    /\ nevents = 0
    /\ listener_log = <<>>
    /\ remove_tasks = <<>>
    /\ last_send = NoSend
    /\ tunnel_machine = [excluded_apps |-> {}, commands |-> <<>>]
    /\ split_calls = <<>>
    /\ inactivity_timer = "running"
    /\ last_event = NoEvent
    /\ sent = <<>>
    /\ reply = "None"
    /\ notified = <<>>
    /\ settings_ops = <<>>
    /\ call_ops = <<>>
    /\ job_ops = <<>>
    /\ api_ops = <<>>

\* --------------------------------------------------------------- frames
daemon_vars == <<state, tunnel_state, target_state, target_locked, settings,
                 device, account_history, reconnection_job, reconnect_tasks,
                 last_generated_relays, shutdown_tasks, fr, listener_log, remove_tasks, last_send, tunnel_machine, split_calls, inactivity_timer>>

out_vars == <<last_event, sent, reply, notified, settings_ops, call_ops, job_ops, api_ops>>

budget_vars == <<ntrans, nevents>>

\* ------------------------------------------------------------ producers
\* a client holding a DaemonCommandSender sends a command
SendCommand ==
    /\ bus_accepts
    /\ Len(queue) < MaxQueue
    /\ nevents < MaxEvents
    /\ \E c \in Commands : queue' = Append(queue, CommandEvent(c))
    /\ nevents' = nevents + 1
    /\ UNCHANGED <<pc, bus_open, gen, exit_reason, ntrans>>
    /\ UNCHANGED daemon_vars
    /\ UNCHANGED out_vars

\* DaemonShutdownHandle::shutdown
SendTriggerShutdown ==
    /\ bus_accepts
    /\ Len(queue) < MaxQueue
    /\ nevents < MaxEvents
    /\ queue' = Append(queue, TriggerShutdownEvent)
    /\ nevents' = nevents + 1
    /\ UNCHANGED <<pc, bus_open, gen, exit_reason, ntrans>>
    /\ UNCHANGED daemon_vars
    /\ UNCHANGED out_vars

\* the tunnel state machine reports a transition
SendTransition ==
    /\ bus_accepts
    /\ Len(queue) < MaxQueue
    /\ nevents < MaxEvents
    /\ \E t \in Transitions : queue' = Append(queue, TransitionEvent(t, ntrans + 1))
    /\ ntrans' = ntrans + 1
    /\ nevents' = nevents + 1
    /\ UNCHANGED <<pc, bus_open, gen, exit_reason>>
    /\ UNCHANGED daemon_vars
    /\ UNCHANGED out_vars

\* the account manager changes the device and emits a PrivateDeviceEvent
SendDeviceEvent ==
    /\ bus_accepts
    /\ Len(queue) < MaxQueue
    /\ nevents < MaxEvents
    /\ \E d \in DeviceEvents :
         /\ d[1] \in {"RotatedKey", "Updated", "Logout", "Revoked"} => device # "None"
         /\ device' = CASE d[1] = "Login" -> d[2]
                        [] d[1] \in {"Logout", "Revoked"} -> "None"
                        [] OTHER -> device
         /\ queue' = Append(queue, DeviceEventEvent(d))
    /\ nevents' = nevents + 1
    /\ UNCHANGED <<pc, bus_open, gen, exit_reason, ntrans>>
    /\ UNCHANGED <<state, tunnel_state, target_state, target_locked, settings,
                   account_history, reconnection_job, reconnect_tasks, last_generated_relays,
                   shutdown_tasks, fr, listener_log, remove_tasks, last_send, tunnel_machine, split_calls, inactivity_timer>>
    /\ UNCHANGED out_vars

\* the tunnel thread calls generate(n): it posts the request and blocks, or
\* returns NoMatchingRelay at once when the bus is closed
GenerateCall ==
    /\ gen.status # "waiting"
    /\ nevents < MaxEvents
    /\ nevents' = nevents + 1
    /\ \E n \in RetryAttempts :
         IF bus_accepts
         THEN /\ Len(queue) < MaxQueue
              /\ queue' = Append(queue, GenerateEvent(n))
              /\ gen' = [status |-> "waiting", n |-> n, result |-> "-", why |-> "-"]
         ELSE /\ queue' = queue
              /\ gen' = [status |-> "returned", n |-> n,
                         result |-> "NoMatchingRelay", why |-> "bus_closed"]
    /\ UNCHANGED <<pc, bus_open, exit_reason, ntrans>>
    /\ UNCHANGED daemon_vars
    /\ UNCHANGED out_vars

\* the delay of the scheduled reconnect elapses: the job sends Reconnect
ReconnectTimerFires ==
    /\ \E t \in reconnect_tasks : reconnect_tasks' = reconnect_tasks \ {t}
    /\ UNCHANGED reconnection_job
    /\ IF bus_accepts
       THEN /\ Len(queue) < MaxQueue
            /\ queue' = Append(queue, CommandEvent(<<"Reconnect", "job">>))
       ELSE queue' = queue
    /\ UNCHANGED <<pc, bus_open, gen, exit_reason>>
    /\ UNCHANGED budget_vars
    /\ UNCHANGED <<state, tunnel_state, target_state, target_locked, settings,
                   device, account_history, last_generated_relays,
                   shutdown_tasks, fr, listener_log, remove_tasks, last_send, tunnel_machine, split_calls, inactivity_timer>>
    /\ UNCHANGED out_vars

\* the last strong DaemonCommandSender is dropped
DropSenders ==
    /\ bus_open
    /\ pc # "done"
    /\ bus_open' = FALSE
    /\ UNCHANGED <<pc, queue, gen, exit_reason>>
    /\ UNCHANGED budget_vars
    /\ UNCHANGED daemon_vars
    /\ UNCHANGED out_vars


\* ---------------------------------------------------------- the event loop
\* run() before the loop: Connect when the initial target state is Secured
RunStart ==
    /\ pc = "start"
    /\ pc' = "loop"
    /\ sent' = (IF target_state = "Secured" THEN <<Connect>> ELSE <<>>)
    /\ api_ops' = ApiOpsOf(sent')
    /\ last_event' = NoEvent
    /\ settings_ops' = <<>>
    /\ call_ops' = <<>>
    /\ job_ops' = <<>>
    /\ reply' = "None"
    /\ notified' = <<>>
    /\ UNCHANGED <<queue, bus_open, gen, exit_reason>>
    /\ UNCHANGED budget_vars
    /\ UNCHANGED daemon_vars

\* the event rx.next() yields
Front == IF pc # "loop" \/ queue = <<>> THEN NoEvent ELSE bus_next(queue)

\* what every handler shares: the event is taken from the bus, and run()
\* leaves the loop when the handler left the execution state Finished
Handled(ev) ==
    /\ pc = "loop"
    /\ queue # <<>>
    /\ last_event' = ev
    /\ pc' = (IF loop_break(state') THEN "exited" ELSE "loop")
    /\ exit_reason' = (IF loop_break(state') THEN "finished" ELSE exit_reason)
    /\ inactivity_timer' = timer_after(inactivity_timer, api_ops')
    /\ UNCHANGED bus_open
    /\ UNCHANGED budget_vars

\* a handler that sends nothing to the bus itself
Taken(ev) ==
    /\ pc = "loop"
    /\ queue # <<>>
    /\ queue' = Tail(queue)
    /\ Handled(ev)

\* rx.next() returns None: every sender is gone and the queue is drained
LoopClosed ==
    /\ pc = "loop"
    /\ queue = <<>>
    /\ ~bus_open
    /\ pc' = "exited"
    /\ exit_reason' = "closed"
    /\ UNCHANGED <<queue, bus_open, gen>>
    /\ UNCHANGED budget_vars
    /\ UNCHANGED daemon_vars
    /\ UNCHANGED out_vars

\* Daemon::handle_tunnel_state_transition
HandleTunnelStateTransition ==
    LET ev == Front IN
      /\ ev.type = "TunnelStateTransition"
      /\ LET tr == [kind |-> ev.name, arg |-> ev.arg]
             new_state == compose_tunnel_state(tr, last_generated_relays)
             unscheduled == IF ~is_connected(new_state)
                            THEN unschedule_reconnect(reconnection_job, reconnect_tasks)
                            ELSE NoJobOps(reconnection_job, reconnect_tasks)
             scheduled == IF is_auth_failed(new_state)
                          THEN schedule_reconnect(unscheduled.job, unscheduled.tasks,
                                                  AUTH_FAILED_RECONNECT_DELAY)
                          ELSE NoJobOps(unscheduled.job, unscheduled.tasks)
         IN  /\ api_ops' =
                   (IF is_connected(tunnel_state) \/ tr.kind = "Connected"
                    THEN <<"service_reset">> ELSE <<>>)
                   \o (IF is_disconnected(new_state)
                       THEN <<"reset_inactivity_timer">>
                       ELSE <<"stop_inactivity_timer">>)
             /\ state' = (IF is_disconnected(new_state) THEN disconnected(state) ELSE state)
             /\ reconnection_job' = scheduled.job
             /\ reconnect_tasks' = scheduled.tasks
             /\ job_ops' = unscheduled.ops \o scheduled.ops
             /\ tunnel_state' = new_state
             /\ notified' = <<[type |-> "new_state", val |-> new_state]>>
             /\ listener_log' = Append(listener_log, ev.id)
             /\ UNCHANGED <<remove_tasks, last_send, tunnel_machine, split_calls>>
      /\ sent' = <<>>
      /\ reply' = "None"
      /\ UNCHANGED <<target_state, target_locked, settings, device, account_history,
                     last_generated_relays, shutdown_tasks, fr, gen>>
      /\ settings_ops' = <<>>
      /\ call_ops' = <<>>
      /\ Taken(ev)

\* Daemon::handle_generate_tunnel_parameters, and the return of generate()
HandleGenerateTunnelParameters ==
    LET ev == Front IN
      /\ ev.type = "GenerateTunnelParameters"
      /\ \E sel \in SelectorResults :
           /\ last_generated_relays' = generate_relays(device, sel, last_generated_relays)
           /\ gen' = [status |-> "returned", n |-> ev.id,
                      result |-> generate_recv(generate_reply(device, sel)),
                      why |-> IF device = "None" THEN "no_device" ELSE sel]
      /\ sent' = <<>>
      /\ reply' = "None"
      /\ notified' = <<>>
      /\ api_ops' = <<>>
      /\ UNCHANGED <<state, tunnel_state, target_state, target_locked, settings, device,
                     account_history, reconnection_job, reconnect_tasks, shutdown_tasks, fr, listener_log, remove_tasks, last_send, tunnel_machine, split_calls>>
      /\ job_ops' = <<>>
      /\ settings_ops' = <<>>
      /\ call_ops' = <<>>
      /\ Taken(ev)

\* Daemon::trigger_shutdown_event, for InternalDaemonEvent::TriggerShutdown
HandleTriggerShutdown ==
    LET ev == Front IN
      /\ ev.type = "TriggerShutdown"
      /\ state' = shutdown(state, tunnel_state)
      /\ sent' = <<Disconnect>>
      /\ reply' = "None"
      /\ notified' = <<>>
      /\ api_ops' = <<>>
      /\ UNCHANGED <<tunnel_state, target_state, target_locked, settings, device,
                     account_history, reconnection_job, reconnect_tasks, last_generated_relays,
                     shutdown_tasks, fr, listener_log, remove_tasks, last_send, tunnel_machine, split_calls, gen>>
      /\ job_ops' = <<>>
      /\ settings_ops' = <<>>
      /\ call_ops' = <<>>
      /\ Taken(ev)

\* what handle_device_event calls in its match on the event
device_event_effects(ev, cmds, jobs) ==
    (IF ev.name = "Login" THEN <<[op |-> "account_history_set", arg |-> ev.arg]>> ELSE <<>>)
    \o [i \in 1..Len(cmds) |-> [op |-> "tunnel", arg |-> cmds[i]]]
    \o [i \in 1..Len(jobs) |-> [op |-> "runtime", arg |-> jobs[i]]]

\* variant: the listener is notified before the match
handle_device_event_notify_first(ev, cmds, jobs) ==
    <<[op |-> "notify_device_event", arg |-> ev.name]>> \o device_event_effects(ev, cmds, jobs)

\* handle_device_event: the match, then notify_device_event
handle_device_event_calls(ev, cmds, jobs) ==
    device_event_effects(ev, cmds, jobs) \o <<[op |-> "notify_device_event", arg |-> ev.name]>>

\* Daemon::handle_device_event
HandleDeviceEvent ==
    LET ev == Front IN
      /\ ev.type = "DeviceEvent"
      /\ CASE ev.name = "Login" ->
                /\ account_history' = account_history_set(account_history, ev.arg)
                /\ sent' = reconnect_tunnel(target_state)
                /\ job_ops' = <<>>
                /\ UNCHANGED <<target_state, reconnection_job, reconnect_tasks>>
           [] ev.name = "Logout" ->
                LET r == set_target_state("Unsecured", target_state, tunnel_state)
                IN  /\ target_state' = r.target
                    /\ sent' = r.cmds
                    /\ job_ops' = <<>>
                    /\ UNCHANGED <<account_history, reconnection_job, reconnect_tasks>>
           [] ev.name = "Revoked" ->
                /\ sent' = (IF target_state = "Secured" THEN <<Connect>> ELSE <<>>)
                /\ job_ops' = <<>>
                /\ UNCHANGED <<target_state, account_history, reconnection_job, reconnect_tasks>>
           [] ev.name = "RotatedKey" ->
                /\ LET r == IF get_target_tunnel_type(tunnel_state) = "Wireguard"
                            THEN schedule_reconnect(reconnection_job, reconnect_tasks,
                                                    WG_RECONNECT_DELAY)
                            ELSE NoJobOps(reconnection_job, reconnect_tasks)
                   IN  /\ reconnection_job' = r.job
                       /\ reconnect_tasks' = r.tasks
                       /\ job_ops' = r.ops
                /\ sent' = <<>>
                /\ UNCHANGED <<target_state, account_history>>
           [] OTHER ->
                /\ sent' = <<>>
                /\ job_ops' = <<>>
                /\ UNCHANGED <<target_state, account_history, reconnection_job, reconnect_tasks>>
      /\ api_ops' = ApiOpsOf(sent')
      /\ call_ops' = handle_device_event_calls(ev, sent', job_ops')
      /\ notified' = LET n == SelectSeq(call_ops', LAMBDA o : o.op = "notify_device_event")
                     IN  [i \in 1..Len(n) |-> [type |-> "device_event", val |-> n[i].arg]]
      /\ reply' = "None"
      /\ UNCHANGED <<state, tunnel_state, target_locked, settings, device,
                     last_generated_relays, shutdown_tasks, fr, listener_log, remove_tasks, last_send, tunnel_machine, split_calls, gen>>
      /\ settings_ops' = <<>>
      /\ Taken(ev)


\* the part of handle_command every command goes through when running
CommandGuard(ev, name) ==
    /\ ev.type = "Command"
    /\ ev.name = name
    /\ is_running(state)

\* variant: every command handled while running resets the timer
TimerResetAlways == <<"reset_inactivity_timer">>

\* handle_command: the inactivity timer is reset while Disconnected
TimerReset == IF is_disconnected(tunnel_state) THEN <<"reset_inactivity_timer">> ELSE <<>>

\* handle_command while the daemon is not running: the command is dropped
HandleDroppedCommand ==
    LET ev == Front IN
      /\ ev.type = "Command"
      /\ ~is_running(state)
      /\ state' = state
      /\ sent' = <<>>
      /\ reply' = "None"
      /\ notified' = <<>>
      /\ api_ops' = <<>>
      /\ UNCHANGED <<tunnel_state, target_state, target_locked, settings, device,
                     account_history, reconnection_job, reconnect_tasks, last_generated_relays,
                     shutdown_tasks, fr, listener_log, remove_tasks, last_send, tunnel_machine, split_calls, gen>>
      /\ job_ops' = <<>>
      /\ settings_ops' = <<>>
      /\ call_ops' = <<>>
      /\ Taken(ev)

\* Daemon::on_set_target_state
HandleSetTargetState ==
    LET ev == Front
        r == set_target_state(ev.arg, target_state, tunnel_state)
    IN  /\ CommandGuard(ev, "SetTargetState")
        /\ target_state' = r.target
        /\ sent' = r.cmds
        /\ reply' = StrOf(r.initiated)
        /\ api_ops' = TimerReset \o ApiOpsOf(r.cmds)
        /\ notified' = <<>>
        /\ UNCHANGED <<state, tunnel_state, target_locked, settings, device,
                       account_history, reconnection_job, reconnect_tasks, last_generated_relays,
                       shutdown_tasks, fr, listener_log, remove_tasks, last_send, tunnel_machine, split_calls, gen>>
        /\ job_ops' = <<>>
        /\ settings_ops' = <<>>
        /\ call_ops' = <<>>
        /\ Taken(ev)

\* Daemon::on_reconnect
HandleReconnect ==
    LET ev == Front
        issued == on_reconnect_issued(target_state, tunnel_state)
    IN  /\ CommandGuard(ev, "Reconnect")
        /\ sent' = (IF issued THEN <<Connect>> ELSE <<>>)
        /\ reply' = StrOf(issued)
        /\ api_ops' = TimerReset \o ApiOpsOf(sent')
        /\ notified' = <<>>
        /\ UNCHANGED <<state, tunnel_state, target_state, target_locked, settings,
                       device, account_history, reconnection_job, reconnect_tasks,
                       last_generated_relays, shutdown_tasks, fr, listener_log, remove_tasks, last_send, tunnel_machine, split_calls, gen>>
        /\ job_ops' = <<>>
        /\ settings_ops' = <<>>
        /\ call_ops' = <<>>
        /\ Taken(ev)

\* DaemonCommand::Shutdown: Daemon::trigger_shutdown_event
HandleShutdown ==
    LET ev == Front
    IN  /\ ev.type = "Command"
        /\ ev.name = "Shutdown"
        /\ is_running(state)
        /\ state' = shutdown(state, tunnel_state)
        /\ sent' = <<Disconnect>>
        /\ reply' = "None"
        /\ api_ops' = TimerReset
        /\ notified' = <<>>
        /\ UNCHANGED <<tunnel_state, target_state, target_locked, settings, device,
                       account_history, reconnection_job, reconnect_tasks, last_generated_relays,
                       shutdown_tasks, fr, listener_log, remove_tasks, last_send, tunnel_machine, split_calls, gen>>
        /\ job_ops' = <<>>
        /\ settings_ops' = <<>>
        /\ call_ops' = <<>>
        /\ Taken(ev)

\* variant: the tunnel machine is told to block whatever the target
on_prepare_restart_always_block(target) ==
    <<[op |-> "tunnel", arg |-> BlockWhenDisconnected("true")],
      [op |-> "target_state", arg |-> "lock"]>>

\* on_prepare_restart: what it calls, in order
on_prepare_restart(target) ==
    (IF target = "Secured"
     THEN <<[op |-> "tunnel", arg |-> BlockWhenDisconnected("true")]>> ELSE <<>>)
    \o <<[op |-> "target_state", arg |-> "lock"]>>

\* Daemon::on_prepare_restart
HandlePrepareRestart ==
    LET ev == Front
    IN  /\ CommandGuard(ev, "PrepareRestart")
        /\ call_ops' = on_prepare_restart(target_state)
        /\ sent' = LET c == SelectSeq(call_ops', LAMBDA o : o.op = "tunnel")
                   IN  [i \in 1..Len(c) |-> c[i].arg]
        /\ target_locked' = (target_locked \/ \E i \in 1..Len(call_ops') :
                                                 call_ops'[i].op = "target_state")
        /\ reply' = "None"
        /\ api_ops' = TimerReset
        /\ notified' = <<>>
        /\ UNCHANGED <<state, tunnel_state, target_state, settings, device,
                       account_history, reconnection_job, reconnect_tasks, last_generated_relays,
                       shutdown_tasks, fr, listener_log, remove_tasks, last_send, tunnel_machine, split_calls, gen>>
        /\ job_ops' = <<>>
        /\ settings_ops' = <<>>
        /\ Taken(ev)

\* ------------------------------------------------------ settings commands
\* the settings commands of handle_command and the field each one sets
MutatorField(name) ==
    CASE name = "UpdateRelaySettings" -> "relay_settings"
      [] name = "SetAllowLan" -> "allow_lan"
      [] name = "SetShowBetaReleases" -> "show_beta_releases"
      [] name = "SetBlockWhenDisconnected" -> "block_when_disconnected"
      [] name = "SetAutoConnect" -> "auto_connect"
      [] name = "SetOpenVpnMssfix" -> "openvpn_mssfix"
      [] name = "SetBridgeSettings" -> "bridge_settings"
      [] name = "SetObfuscationSettings" -> "obfuscation_settings"
      [] name = "SetBridgeState" -> "bridge_state"
      [] name = "SetEnableIpv6" -> "enable_ipv6"
      [] name = "SetDnsOptions" -> "dns_options"
      [] name = "SetWireguardMtu" -> "wireguard_mtu"
      [] name = "SetWireguardRotationInterval" -> "wireguard_rotation_interval"

Mutators ==
    {"UpdateRelaySettings", "SetAllowLan", "SetShowBetaReleases",
     "SetBlockWhenDisconnected", "SetAutoConnect", "SetOpenVpnMssfix",
     "SetBridgeSettings", "SetObfuscationSettings", "SetBridgeState",
     "SetEnableIpv6", "SetDnsOptions", "SetWireguardMtu",
     "SetWireguardRotationInterval"}

\* the value a command argument stands for in its field
ValueOf(f, arg) == IF f \in BoolFields THEN BoolOf(arg) ELSE arg

\* SettingsPersister::set_*: nothing is written when the value is the stored
\* one; otherwise the new settings are saved, or the save fails and the
\* stored settings stay
settings_update(stored, f, v, ok) ==
    IF stored[f] = v THEN [result |-> "Unchanged", settings |-> stored]
    ELSE IF ok THEN [result |-> "Changed", settings |-> [stored EXCEPT ![f] = v]]
    ELSE [result |-> "Err", settings |-> stored]

\* one call of a handler: what is called and with what
Op(o, a) == [op |-> o, arg |-> a]

ReplyOk == Op("reply", "Ok")

ReplyErr == Op("reply", "SettingsError")

NotifySettings == Op("notify_settings", "-")

SelectorSetConfig == Op("selector", "set_config")

\* reconnect_tunnel as calls: connect_tunnel when the target is Secured
reconnect_ops(target) ==
    IF reconnect_tunnel(target) = <<>>
    THEN <<>>
    ELSE <<Op("api", "resume_background"), Op("tunnel", Connect)>>

\* variant: the listener is notified whether or not the value changed
reply_then_effects_always_notify(r, effects) ==
    CASE r = "Changed" -> <<ReplyOk, NotifySettings>> \o effects
      [] r = "Unchanged" -> <<ReplyOk, NotifySettings>>
      [] OTHER -> <<ReplyErr>>

\* the match on save_result of the handlers that reply before notifying
reply_then_effects(r, effects) ==
    CASE r = "Changed" -> <<ReplyOk, NotifySettings>> \o effects
      [] r = "Unchanged" -> <<ReplyOk>>
      [] OTHER -> <<ReplyErr>>

\* variant: the effects also follow a failed save
effects_then_reply_on_error(r, effects) ==
    CASE r = "Changed" -> <<NotifySettings>> \o effects \o <<ReplyOk>>
      [] r = "Unchanged" -> <<ReplyOk>>
      [] OTHER -> <<NotifySettings>> \o effects \o <<ReplyErr>>

\* the match of the handlers that reply last (bridge and obfuscation settings)
effects_then_reply(r, effects) ==
    CASE r = "Changed" -> <<NotifySettings>> \o effects \o <<ReplyOk>>
      [] r = "Unchanged" -> <<ReplyOk>>
      [] OTHER -> <<ReplyErr>>

on_update_relay_settings(r, arg, target, ts) ==
    reply_then_effects(r, <<SelectorSetConfig>> \o reconnect_ops(target))

\* variant: the tunnel machine is always told that LAN is allowed
on_set_allow_lan_enabled(r, arg, target, ts) ==
    reply_then_effects(r, <<Op("tunnel", AllowLan("true"))>>)

on_set_allow_lan(r, arg, target, ts) ==
    reply_then_effects(r, <<Op("tunnel", AllowLan(arg))>>)

on_set_show_beta_releases(r, arg, target, ts) ==
    reply_then_effects(r, <<Op("version_updater", "set_show_beta_releases")>>)

on_set_block_when_disconnected(r, arg, target, ts) ==
    reply_then_effects(r, <<Op("tunnel", BlockWhenDisconnected(arg))>>)

on_set_auto_connect(r, arg, target, ts) == reply_then_effects(r, <<>>)

on_set_openvpn_mssfix(r, arg, target, ts) ==
    reply_then_effects(r, IF get_connected_tunnel_type(ts) = "OpenVpn"
                          THEN reconnect_ops(target) ELSE <<>>)

on_set_bridge_settings(r, arg, target, ts) ==
    effects_then_reply(r, <<SelectorSetConfig, Op("api", "next_api_endpoint")>>
                          \o reconnect_ops(target))

on_set_obfuscation_settings(r, arg, target, ts) ==
    effects_then_reply(r, <<SelectorSetConfig>> \o reconnect_ops(target))

on_set_bridge_state(r, arg, target, ts) ==
    effects_then_reply(r, <<SelectorSetConfig>> \o reconnect_ops(target))

\* variant: the tunnel is restarted only when it is up
on_set_enable_ipv6_if_connected(r, arg, target, ts) ==
    reply_then_effects(r, IF is_connected(ts) THEN reconnect_ops(target) ELSE <<>>)

on_set_enable_ipv6(r, arg, target, ts) == reply_then_effects(r, reconnect_ops(target))

\* dns::addresses_from_options: the resolvers custom options name, if any
addresses_from_options(opts) == IF opts = "custom" THEN "custom_addresses" ELSE "None"

Dns(resolvers) == <<"Dns", resolvers>>

\* the resolvers are read from the settings as stored after the save
on_set_dns_options(r, stored, target, ts) ==
    reply_then_effects(r, <<Op("tunnel", Dns(addresses_from_options(stored.dns_options)))>>)

on_set_wireguard_mtu(r, arg, target, ts) ==
    reply_then_effects(r, IF get_connected_tunnel_type(ts) = "Wireguard"
                          THEN reconnect_ops(target) ELSE <<>>)

\* variant: the listener is not notified
on_set_wireguard_rotation_interval_silent(r, arg, target, ts) ==
    CASE r = "Changed" -> <<ReplyOk, Op("account_manager", "set_rotation_interval")>>
      [] r = "Unchanged" -> <<ReplyOk>>
      [] OTHER -> <<ReplyErr>>

\* the account manager is told the interval before the listener is notified
on_set_wireguard_rotation_interval(r, arg, target, ts) ==
    CASE r = "Changed" ->
           <<ReplyOk, Op("account_manager", "set_rotation_interval"), NotifySettings>>
      [] r = "Unchanged" -> <<ReplyOk>>
      [] OTHER -> <<ReplyErr>>

\* the arms of handle_command for the settings commands
mutator_ops(name, r, arg, stored, target, ts) ==
    CASE name = "UpdateRelaySettings" -> on_update_relay_settings(r, arg, target, ts)
      [] name = "SetAllowLan" -> on_set_allow_lan(r, arg, target, ts)
      [] name = "SetShowBetaReleases" -> on_set_show_beta_releases(r, arg, target, ts)
      [] name = "SetBlockWhenDisconnected" ->
           on_set_block_when_disconnected(r, arg, target, ts)
      [] name = "SetAutoConnect" -> on_set_auto_connect(r, arg, target, ts)
      [] name = "SetOpenVpnMssfix" -> on_set_openvpn_mssfix(r, arg, target, ts)
      [] name = "SetBridgeSettings" -> on_set_bridge_settings(r, arg, target, ts)
      [] name = "SetObfuscationSettings" ->
           on_set_obfuscation_settings(r, arg, target, ts)
      [] name = "SetBridgeState" -> on_set_bridge_state(r, arg, target, ts)
      [] name = "SetEnableIpv6" -> on_set_enable_ipv6(r, arg, target, ts)
      [] name = "SetDnsOptions" -> on_set_dns_options(r, stored, target, ts)
      [] name = "SetWireguardMtu" -> on_set_wireguard_mtu(r, arg, target, ts)
      [] name = "SetWireguardRotationInterval" ->
           on_set_wireguard_rotation_interval(r, arg, target, ts)

\* the calls of one kind among ops, in order
OpsOf(ops, kind) == SelectSeq(ops, LAMBDA o : o.op = kind)

ArgsOf(ops, kind) == LET q == OpsOf(ops, kind) IN [i \in 1..Len(q) |-> q[i].arg]

\* a settings command handled while running: the persister is called, then
\* the handler does what its match on the result says
HandleMutator(name) ==
    LET ev == Front
        f == MutatorField(name)
    IN  /\ CommandGuard(ev, name)
        /\ \E ok \in BOOLEAN :
             LET u == settings_update(settings, f, ValueOf(f, ev.arg), ok)
                 ops == <<Op("settings_set", u.result)>>
                        \o mutator_ops(name, u.result, ev.arg, u.settings,
                                       target_state, tunnel_state)
             IN  /\ settings' = u.settings
                 /\ settings_ops' = ops
                 /\ call_ops' = <<>>
                 /\ reply' = ArgsOf(ops, "reply")[1]
                 /\ notified' = [i \in 1..Len(OpsOf(ops, "notify_settings")) |->
                                   [type |-> "settings", val |-> u.settings]]
                 /\ sent' = ArgsOf(ops, "tunnel")
                 /\ api_ops' = TimerReset \o ArgsOf(ops, "api")
        /\ job_ops' = <<>>
        /\ UNCHANGED <<state, tunnel_state, target_state, target_locked, device,
                       account_history, reconnection_job, reconnect_tasks,
                       last_generated_relays, shutdown_tasks, fr, listener_log, remove_tasks, last_send, tunnel_machine, split_calls, gen>>
        /\ Taken(ev)

HandleUpdateRelaySettings ==
    /\ Front.name = "UpdateRelaySettings"
    /\ HandleMutator("UpdateRelaySettings")

HandleSetAllowLan ==
    /\ Front.name = "SetAllowLan"
    /\ HandleMutator("SetAllowLan")

HandleSetShowBetaReleases ==
    /\ Front.name = "SetShowBetaReleases"
    /\ HandleMutator("SetShowBetaReleases")

HandleSetBlockWhenDisconnected ==
    /\ Front.name = "SetBlockWhenDisconnected"
    /\ HandleMutator("SetBlockWhenDisconnected")

HandleSetAutoConnect ==
    /\ Front.name = "SetAutoConnect"
    /\ HandleMutator("SetAutoConnect")

HandleSetOpenVpnMssfix ==
    /\ Front.name = "SetOpenVpnMssfix"
    /\ HandleMutator("SetOpenVpnMssfix")

HandleSetBridgeSettings ==
    /\ Front.name = "SetBridgeSettings"
    /\ HandleMutator("SetBridgeSettings")

HandleSetObfuscationSettings ==
    /\ Front.name = "SetObfuscationSettings"
    /\ HandleMutator("SetObfuscationSettings")

HandleSetBridgeState ==
    /\ Front.name = "SetBridgeState"
    /\ HandleMutator("SetBridgeState")

HandleSetEnableIpv6 ==
    /\ Front.name = "SetEnableIpv6"
    /\ HandleMutator("SetEnableIpv6")

HandleSetDnsOptions ==
    /\ Front.name = "SetDnsOptions"
    /\ HandleMutator("SetDnsOptions")

HandleSetWireguardMtu ==
    /\ Front.name = "SetWireguardMtu"
    /\ HandleMutator("SetWireguardMtu")

HandleSetWireguardRotationInterval ==
    /\ Front.name = "SetWireguardRotationInterval"
    /\ HandleMutator("SetWireguardRotationInterval")

\* variant: the settings of a fresh installation are returned
on_get_settings_default(stored) == DefaultSettings

\* Daemon::on_get_settings: self.settings.to_settings()
on_get_settings(stored) == stored

\* DaemonCommand::GetSettings
HandleGetSettings ==
    LET ev == Front
    IN  /\ CommandGuard(ev, "GetSettings")
        /\ settings_ops' = <<Op("reply", on_get_settings(settings))>>
        /\ call_ops' = <<>>
        /\ reply' = "Settings"
        /\ sent' = <<>>
        /\ notified' = <<>>
        /\ api_ops' = TimerReset
        /\ job_ops' = <<>>
        /\ UNCHANGED <<state, tunnel_state, target_state, target_locked, settings, device,
                       account_history, reconnection_job, reconnect_tasks,
                       last_generated_relays, shutdown_tasks, fr, listener_log, remove_tasks, last_send, tunnel_machine, split_calls, gen>>
        /\ Taken(ev)

\* Daemon::on_factory_reset: logout, clear the account history, reset the
\* settings, trigger the shutdown and queue the task clearing the directories
HandleFactoryReset ==
    LET ev == Front
    IN  /\ ev.type = "Command"
        /\ ev.name = "FactoryReset"
        /\ is_running(state)
        /\ \E ok1, ok2, ok3 \in BOOLEAN :
             LET e1 == record_error("Ok", ok1, "LogoutError")
                 e2 == record_error(e1, ok2, "ClearAccountHistoryError")
                 e3 == record_error(e2, ok3, "ClearSettingsError")
             IN  /\ device' = (IF ok1 THEN "None" ELSE device)
                 /\ account_history' = (IF ok2 THEN "None" ELSE account_history)
                 /\ settings' = (IF ok3 THEN DefaultSettings ELSE settings)
                 /\ shutdown_tasks' = Append(shutdown_tasks,
                                             [task |-> "factory_reset", last_error |-> e3])
                 /\ fr' = [attempted |-> <<"logout", "clear_history", "reset_settings">>,
                           failed |-> (IF ok1 THEN <<>> ELSE <<"LogoutError">>)
                                      \o (IF ok2 THEN <<>> ELSE <<"ClearAccountHistoryError">>)
                                      \o (IF ok3 THEN <<>> ELSE <<"ClearSettingsError">>),
                           reply |-> "None"]
        /\ state' = shutdown(state, tunnel_state)
        /\ sent' = <<Disconnect>>
        /\ reply' = "None"
        /\ api_ops' = TimerReset
        /\ notified' = <<>>
        /\ UNCHANGED <<tunnel_state, target_state, target_locked, reconnection_job, reconnect_tasks,
                       last_generated_relays, listener_log, remove_tasks, last_send, tunnel_machine, split_calls, gen>>
        /\ job_ops' = <<>>
        /\ settings_ops' = <<>>
        /\ call_ops' = <<>>
        /\ Taken(ev)

\* Daemon::finalize after the loop: the receiver is dropped with whatever
\* is still queued, then the shutdown tasks run in order
Finalize ==
    /\ pc = "exited"
    /\ pc' = "done"
    /\ queue' = <<>>
    /\ gen' = generate_discarded(gen)
    /\ IF shutdown_tasks # <<>>
       THEN \E ok4, ok5 \in BOOLEAN :
              LET e4 == record_error(shutdown_tasks[1].last_error, ok4, "ClearCacheError")
                  e5 == record_error(e4, ok5, "ClearLogsError")
              IN  fr' = [attempted |-> fr.attempted \o factory_reset_task_steps,
                         failed |-> fr.failed
                                    \o (IF ok4 THEN <<>> ELSE <<"ClearCacheError">>)
                                    \o (IF ok5 THEN <<>> ELSE <<"ClearLogsError">>),
                         reply |-> e5]
       ELSE fr' = fr
    /\ shutdown_tasks' = <<>>
    /\ UNCHANGED <<bus_open, exit_reason>>
    /\ UNCHANGED budget_vars
    /\ UNCHANGED <<state, tunnel_state, target_state, target_locked, settings,
                   device, account_history, reconnection_job, reconnect_tasks,
                   last_generated_relays, listener_log, remove_tasks, last_send, tunnel_machine, split_calls, inactivity_timer>>
    /\ UNCHANGED out_vars

\* ------------------------------------------------------------------- Next
Next ==
    \/ RunStart
    \/ SendCommand
    \/ SendTriggerShutdown
    \/ SendTransition
    \/ SendDeviceEvent
    \/ GenerateCall
    \/ ReconnectTimerFires
    \/ DropSenders
    \/ LoopClosed
    \/ HandleTunnelStateTransition
    \/ HandleGenerateTunnelParameters
    \/ HandleTriggerShutdown
    \/ HandleDeviceEvent
    \/ HandleDroppedCommand
    \/ HandleSetTargetState
    \/ HandleReconnect
    \/ HandleShutdown
    \/ HandlePrepareRestart
    \/ HandleFactoryReset
    \/ Finalize

Spec == Init /\ [][Next]_vars

\* ------------------------------------------------------- the senders alone
\* the receiver exists until finalize() has dropped it
receiver_alive == pc # "done"

BusCommands == {<<"Shutdown", "-">>, <<"Reconnect", "-">>}

BusTransitions ==
    {t \in Transitions : t.kind = "Disconnected" \/ (t.kind = "Connected" /\ t.arg = "Wireguard")}

\* a client calls send on a DaemonCommandSender it holds, and sees the result
ClientSend ==
    /\ bus_open
    /\ nevents < MaxEvents
    /\ \E c \in BusCommands :
         LET r == command_sender_send(receiver_alive, queue, CommandEvent(c))
         IN  /\ Len(r.queue) <= MaxQueue
             /\ queue' = r.queue
             /\ last_send' = [by |-> "command", n |-> nevents + 1, result |-> r.result]
    /\ nevents' = nevents + 1
    /\ UNCHANGED <<pc, bus_open, gen, exit_reason, ntrans>>
    /\ UNCHANGED <<state, tunnel_state, target_state, target_locked, settings,
                   device, account_history, reconnection_job, reconnect_tasks,
                   last_generated_relays, shutdown_tasks, fr, listener_log, remove_tasks,
                   tunnel_machine, split_calls, inactivity_timer>>
    /\ UNCHANGED out_vars

\* the tunnel state machine calls send on its DaemonEventSender
SubsystemSend ==
    /\ nevents < MaxEvents
    /\ \E t \in BusTransitions :
         LET r == event_sender_send(bus_open, receiver_alive, queue,
                                    TransitionEvent(t, ntrans + 1))
         IN  /\ Len(r.queue) <= MaxQueue
             /\ queue' = r.queue
             /\ ntrans' = (IF r.result = "Ok" THEN ntrans + 1 ELSE ntrans)
             /\ last_send' = [by |-> "event", n |-> nevents + 1, result |-> r.result]
    /\ nevents' = nevents + 1
    /\ UNCHANGED <<pc, bus_open, gen, exit_reason>>
    /\ UNCHANGED <<state, tunnel_state, target_state, target_locked, settings,
                   device, account_history, reconnection_job, reconnect_tasks,
                   last_generated_relays, shutdown_tasks, fr, listener_log, remove_tasks,
                   tunnel_machine, split_calls, inactivity_timer>>
    /\ UNCHANGED out_vars

NextBus ==
    \/ RunStart
    \/ ClientSend
    \/ SubsystemSend
    \/ DropSenders
    \/ LoopClosed
    \/ HandleTunnelStateTransition
    \/ HandleDroppedCommand
    \/ HandleReconnect
    \/ HandleShutdown
    \/ Finalize

SpecBus == Init /\ [][NextBus]_vars

\* ------------------------------------------------ the device commands alone
\* DaemonCommand::RemoveDevice(tx, token, device_id)
RemoveDeviceCommands ==
    {<<"RemoveDevice", [token |-> a, device_id |-> d]>> :
        a \in AccountTokens, d \in {"d1"}}

SendRemoveDevice ==
    /\ bus_accepts
    /\ Len(queue) < MaxQueue
    /\ nevents < MaxEvents
    /\ \E c \in RemoveDeviceCommands : queue' = Append(queue, CommandEvent(c))
    /\ nevents' = nevents + 1
    /\ UNCHANGED <<pc, bus_open, gen, exit_reason, ntrans>>
    /\ UNCHANGED daemon_vars
    /\ UNCHANGED out_vars

\* the account manager logs the device out, or finds it revoked
SendLogoutOrRevoked ==
    /\ bus_accepts
    /\ Len(queue) < MaxQueue
    /\ nevents < MaxEvents
    /\ device # "None"
    /\ device' = "None"
    /\ \E d \in {x \in DeviceEvents : x[1] \in {"Logout", "Revoked"}} :
         queue' = Append(queue, DeviceEventEvent(d))
    /\ nevents' = nevents + 1
    /\ UNCHANGED <<pc, bus_open, gen, exit_reason, ntrans>>
    /\ UNCHANGED <<state, tunnel_state, target_state, target_locked, settings,
                   account_history, reconnection_job, reconnect_tasks, last_generated_relays,
                   shutdown_tasks, fr, listener_log, remove_tasks, last_send, tunnel_machine, split_calls, inactivity_timer>>
    /\ UNCHANGED out_vars

\* what the tasks of on_remove_device leave alone
task_frame ==
    <<pc, queue, bus_open, gen, exit_reason, ntrans, nevents, state, tunnel_state,
      target_state, target_locked, settings, device, account_history,
      reconnection_job, reconnect_tasks, last_generated_relays, shutdown_tasks,
      fr, listener_log, last_send, tunnel_machine, split_calls, inactivity_timer>>

\* Daemon::on_remove_device: the work is spawned as a task of its own
HandleRemoveDevice ==
    LET ev == Front
    IN  /\ CommandGuard(ev, "RemoveDevice")
        /\ remove_tasks' = Append(remove_tasks,
                                  [token |-> ev.arg.token, device_id |-> ev.arg.device_id,
                                   at |-> "list_devices", devices |-> <<>>, ops |-> <<>>])
        /\ sent' = <<>>
        /\ reply' = "None"
        /\ notified' = <<>>
        /\ api_ops' = TimerReset
        /\ settings_ops' = <<>>
        /\ call_ops' = <<>>
        /\ job_ops' = <<>>
        /\ UNCHANGED <<state, tunnel_state, target_state, target_locked, settings, device,
                       account_history, reconnection_job, reconnect_tasks,
                       last_generated_relays, shutdown_tasks, fr, listener_log, last_send, tunnel_machine, split_calls,
                       gen>>
        /\ Taken(ev)

\* the task: device_service.list_devices(token) returns
RemoveDeviceListed ==
    /\ \E i \in 1..Len(remove_tasks) :
         /\ remove_tasks[i].at = "list_devices"
         /\ \/ remove_tasks' =
                 [remove_tasks EXCEPT ![i].at = "returned",
                                      ![i].ops = <<[op |-> "reply", arg |-> "ListDevicesError"]>>]
            \/ \E l \in DeviceLists :
                 remove_tasks' = [remove_tasks EXCEPT ![i].at = "remove_device",
                                                      ![i].devices = l]
    /\ UNCHANGED task_frame
    /\ UNCHANGED out_vars

\* the task: device_service.remove_device(token, device_id) returns, and on
\* success the listener is notified and the reply is sent
RemoveDeviceRemoved ==
    /\ \E i \in 1..Len(remove_tasks) :
         LET t == remove_tasks[i] IN
         /\ t.at = "remove_device"
         /\ \E ok \in BOOLEAN :
              remove_tasks' =
                [remove_tasks EXCEPT
                   ![i].at = "returned",
                   ![i].ops = IF ok
                              THEN remove_device_finish(t.token, t.devices, t.device_id)
                              ELSE <<[op |-> "reply", arg |-> "RemoveDeviceError"]>>]
    /\ UNCHANGED task_frame
    /\ UNCHANGED out_vars

NextDevices ==
    \/ RunStart
    \/ SendRemoveDevice
    \/ SendLogoutOrRevoked
    \/ HandleDeviceEvent
    \/ HandleRemoveDevice
    \/ RemoveDeviceListed
    \/ RemoveDeviceRemoved

SpecDevices == Init /\ [][NextDevices]_vars

\* --------------------------------------------- the settings commands alone
\* the arguments clients send with a settings command
MutatorArgs(name) ==
    IF name = "SetAllowLan" THEN {"true", "false"}
    ELSE IF MutatorField(name) \in BoolFields THEN {"true"} ELSE {"custom"}

SettingsCommands ==
    {<<"GetSettings", "-">>}
    \cup UNION {{<<name, a>> : a \in MutatorArgs(name)} : name \in Mutators}

\* a client sends a settings command
SendSettingsCommand ==
    /\ bus_accepts
    /\ Len(queue) < MaxQueue
    /\ nevents < MaxEvents
    /\ \E c \in SettingsCommands : queue' = Append(queue, CommandEvent(c))
    /\ nevents' = nevents + 1
    /\ UNCHANGED <<pc, bus_open, gen, exit_reason, ntrans>>
    /\ UNCHANGED daemon_vars
    /\ UNCHANGED out_vars

\* the transitions reported while settings commands are handled: one of
\* each kind, and Connected over each tunnel type
SettingsTransitions ==
    {t \in Transitions :
        \/ t.kind \in {"Disconnected", "Disconnecting", "Connected"}
        \/ t.kind = "Connecting" /\ t.arg = "Wireguard"
        \/ t.kind = "Error" /\ t.arg = "Other"}

\* the tunnel state machine reports a transition
SendSettingsTransition ==
    /\ bus_accepts
    /\ Len(queue) < MaxQueue
    /\ nevents < MaxEvents
    /\ \E t \in SettingsTransitions :
         queue' = Append(queue, TransitionEvent(t, ntrans + 1))
    /\ ntrans' = ntrans + 1
    /\ nevents' = nevents + 1
    /\ UNCHANGED <<pc, bus_open, gen, exit_reason>>
    /\ UNCHANGED daemon_vars
    /\ UNCHANGED out_vars

NextSettings ==
    \/ RunStart
    \/ SendSettingsCommand
    \/ SendSettingsTransition
    \/ HandleTunnelStateTransition
    \/ HandleGetSettings
    \/ HandleUpdateRelaySettings
    \/ HandleSetAllowLan
    \/ HandleSetShowBetaReleases
    \/ HandleSetBlockWhenDisconnected
    \/ HandleSetAutoConnect
    \/ HandleSetOpenVpnMssfix
    \/ HandleSetBridgeSettings
    \/ HandleSetObfuscationSettings
    \/ HandleSetBridgeState
    \/ HandleSetEnableIpv6
    \/ HandleSetDnsOptions
    \/ HandleSetWireguardMtu
    \/ HandleSetWireguardRotationInterval

SpecSettings == Init /\ [][NextSettings]_vars

\* ------------------------------------------------ split-tunnel updates
\* the application paths of the model
SplitPaths == {"a", "b"}

\* ExcludedPathsUpdate
SetPaths(paths) == [kind |-> "SetPaths", paths |-> paths, state |-> FALSE]

SetState(enabled) == [kind |-> "SetState", paths |-> {}, state |-> enabled]

SetExcludedApps(list) == <<"SetExcludedApps", list>>

\* InternalDaemonEvent::ExcludedPathsEvent(update, tx): the update is the one
\* recorded for tx in split_calls
ExcludedPathsEvent(tx) ==
    [type |-> "ExcludedPathsEvent", name |-> "-", arg |-> "-", id |-> tx]

\* on_add_split_tunnel_app, on_remove_split_tunnel_app,
\* on_clear_split_tunnel_apps, on_set_split_tunnel_state: the update each
\* one builds from the settings as they are when the command is handled
split_tunnel_update(name, arg, st) ==
    CASE name = "AddSplitTunnelApp" -> SetPaths(st.apps \cup {arg})
      [] name = "RemoveSplitTunnelApp" -> SetPaths(st.apps \ {arg})
      [] name = "ClearSplitTunnelApps" -> SetPaths({})
      [] name = "SetSplitTunnelState" -> SetState(BoolOf(arg))

\* variant: every update that is not a no-op goes through the tunnel machine
set_split_tunnel_paths_always_tunnel(st, update) ==
    LET new_list == IF update.kind = "SetPaths" THEN update.paths ELSE st.apps
        new_state == IF update.kind = "SetPaths" THEN st.enable_exclusions
                     ELSE update.state
    IN  IF update.kind = "SetPaths" /\ update.paths = st.apps
        THEN [do |-> "reply", tunnel_list |-> {}]
        ELSE IF update.kind = "SetState" /\ update.state = st.enable_exclusions
        THEN [do |-> "reply", tunnel_list |-> {}]
        ELSE [do |-> "tunnel", tunnel_list |-> IF new_state THEN new_list ELSE {}]

\* Daemon::set_split_tunnel_paths up to its first send: reply Ok at once,
\* send SetExcludedApps(tunnel_list) and spawn the task that waits for the
\* result, or put the ExcludedPathsEvent on the bus directly
set_split_tunnel_paths(st, update) ==
    LET new_list == IF update.kind = "SetPaths" THEN update.paths ELSE st.apps
        new_state == IF update.kind = "SetPaths" THEN st.enable_exclusions
                     ELSE update.state
    IN  IF update.kind = "SetPaths" /\ update.paths = st.apps
        THEN [do |-> "reply", tunnel_list |-> {}]
        ELSE IF update.kind = "SetState" /\ update.state = st.enable_exclusions
        THEN [do |-> "reply", tunnel_list |-> {}]
        ELSE IF new_state \/ new_state # st.enable_exclusions
        THEN [do |-> "tunnel", tunnel_list |-> IF new_state THEN new_list ELSE {}]
        ELSE [do |-> "event", tunnel_list |-> {}]

\* SettingsPersister::set_split_tunnel_apps / set_split_tunnel_state
split_tunnel_save(stored, update, ok) ==
    settings_update(stored, "split_tunnel",
                    IF update.kind = "SetPaths"
                    THEN [stored.split_tunnel EXCEPT !.apps = update.paths]
                    ELSE [stored.split_tunnel EXCEPT !.enable_exclusions = update.state],
                    ok)

\* variant: the listener is notified of every successful save
handle_new_excluded_paths_always_notify(r) ==
    CASE r = "Changed" -> <<ReplyOk, NotifySettings>>
      [] r = "Unchanged" -> <<ReplyOk, NotifySettings>>
      [] OTHER -> <<ReplyErr>>

\* Daemon::handle_new_excluded_paths after the save: the reply, then the
\* notification if the settings changed
handle_new_excluded_paths(r) ==
    CASE r = "Changed" -> <<ReplyOk, NotifySettings>>
      [] r = "Unchanged" -> <<ReplyOk>>
      [] OTHER -> <<ReplyErr>>

SplitTunnelCommands ==
    {<<"AddSplitTunnelApp", p>> : p \in SplitPaths}
    \cup {<<"RemoveSplitTunnelApp", "a">>, <<"ClearSplitTunnelApps", "-">>}
    \cup {<<"SetSplitTunnelState", b>> : b \in {"true", "false"}}

\* a client sends a split-tunnel command
SendSplitTunnelCommand ==
    /\ bus_accepts
    /\ Len(queue) < MaxQueue
    /\ nevents < MaxEvents
    /\ \E c \in SplitTunnelCommands : queue' = Append(queue, CommandEvent(c))
    /\ nevents' = nevents + 1
    /\ UNCHANGED <<pc, bus_open, gen, exit_reason, ntrans>>
    /\ UNCHANGED daemon_vars
    /\ UNCHANGED out_vars

\* the arms of handle_command for the split-tunnel app commands, with
\* set_split_tunnel_paths up to the point where it returns
HandleSplitTunnelCommand(name) ==
    LET ev == Front
        st == settings.split_tunnel
        update == split_tunnel_update(name, ev.arg, st)
        d == set_split_tunnel_paths(st, update)
        tx == Len(split_calls) + 1
        posted == event_sender_send(bus_open, receiver_alive, Tail(queue),
                                    ExcludedPathsEvent(tx))
    IN  /\ CommandGuard(ev, name)
        /\ queue' = (IF d.do = "event" THEN posted.queue ELSE Tail(queue))
        /\ split_calls' =
             Append(split_calls,
                    [cmd |-> <<name, ev.arg>>, update |-> update, settings |-> st,
                     at |-> CASE d.do = "reply" -> "done"
                              [] d.do = "tunnel" -> "tunnel"
                              [] OTHER -> IF posted.result = "Ok" THEN "bus" ELSE "dropped",
                     ops |-> CASE d.do = "reply" -> <<ReplyOk>>
                               [] d.do = "tunnel" ->
                                    <<Op("tunnel", SetExcludedApps(d.tunnel_list))>>
                               [] OTHER -> <<Op("send", posted.result)>>])
        /\ tunnel_machine' =
             (IF d.do = "tunnel"
              THEN [tunnel_machine EXCEPT
                      !.commands = Append(@, [tx |-> tx, list |-> d.tunnel_list])]
              ELSE tunnel_machine)
        /\ sent' = (IF d.do = "tunnel" THEN <<SetExcludedApps(d.tunnel_list)>> ELSE <<>>)
        /\ reply' = (IF d.do = "reply" THEN "Ok" ELSE "None")
        /\ notified' = <<>>
        /\ api_ops' = TimerReset
        /\ settings_ops' = <<>>
        /\ call_ops' = <<>>
        /\ job_ops' = <<>>
        /\ UNCHANGED <<state, tunnel_state, target_state, target_locked, settings, device,
                       account_history, reconnection_job, reconnect_tasks,
                       last_generated_relays, shutdown_tasks, fr, listener_log,
                       remove_tasks, last_send, gen>>
        /\ Handled(ev)

HandleAddSplitTunnelApp ==
    /\ Front.name = "AddSplitTunnelApp"
    /\ HandleSplitTunnelCommand("AddSplitTunnelApp")

HandleRemoveSplitTunnelApp ==
    /\ Front.name = "RemoveSplitTunnelApp"
    /\ HandleSplitTunnelCommand("RemoveSplitTunnelApp")

HandleClearSplitTunnelApps ==
    /\ Front.name = "ClearSplitTunnelApps"
    /\ HandleSplitTunnelCommand("ClearSplitTunnelApps")

HandleSetSplitTunnelState ==
    /\ Front.name = "SetSplitTunnelState"
    /\ HandleSplitTunnelCommand("SetSplitTunnelState")

\* what the tunnel machine and the spawned tasks leave alone
split_frame ==
    <<pc, bus_open, gen, exit_reason, ntrans, nevents, state, tunnel_state,
      target_state, target_locked, settings, device, account_history,
      reconnection_job, reconnect_tasks, last_generated_relays, shutdown_tasks,
      fr, listener_log, remove_tasks, last_send, inactivity_timer>>

\* the tunnel machine takes its oldest SetExcludedApps command and answers
\* on result_tx: the list is applied, the list is rejected, or result_tx is
\* dropped without an answer
TunnelSetExcludedApps ==
    /\ tunnel_machine.commands # <<>>
    /\ LET c == Head(tunnel_machine.commands) IN
         \E result \in {"Ok", "Err", "Dropped"} :
           /\ tunnel_machine' =
                [excluded_apps |-> IF result = "Ok" THEN c.list
                                   ELSE tunnel_machine.excluded_apps,
                 commands |-> Tail(tunnel_machine.commands)]
           /\ split_calls' = [split_calls EXCEPT
                                 ![c.tx].at = result,
                                 ![c.tx].ops = Append(@, Op("result", result))]
    /\ UNCHANGED queue
    /\ UNCHANGED split_frame
    /\ UNCHANGED out_vars

\* the task spawned by set_split_tunnel_paths resumes on the result: it
\* sends the ExcludedPathsEvent, replies with the split-tunnel error, or
\* returns without a reply
ExcludedPathsTask ==
    /\ \E tx \in 1..Len(split_calls) :
         LET c == split_calls[tx]
             posted == event_sender_send(bus_open, receiver_alive, queue,
                                         ExcludedPathsEvent(tx))
         IN  /\ c.at \in {"Ok", "Err", "Dropped"}
             /\ CASE c.at = "Ok" ->
                       /\ Len(queue) < MaxQueue
                       /\ queue' = posted.queue
                       /\ split_calls' =
                            [split_calls EXCEPT
                               ![tx].at = IF posted.result = "Ok" THEN "bus" ELSE "dropped",
                               ![tx].ops = Append(@, Op("send", posted.result))]
                  [] c.at = "Err" ->
                       /\ queue' = queue
                       /\ split_calls' =
                            [split_calls EXCEPT
                               ![tx].at = "done",
                               ![tx].ops = Append(@, Op("reply", "SplitTunnelError"))]
                  [] OTHER ->
                       /\ queue' = queue
                       /\ split_calls' = [split_calls EXCEPT ![tx].at = "dropped"]
    /\ UNCHANGED tunnel_machine
    /\ UNCHANGED split_frame
    /\ UNCHANGED out_vars

\* Daemon::handle_new_excluded_paths, for InternalDaemonEvent::ExcludedPathsEvent
HandleExcludedPathsEvent ==
    LET ev == Front IN
      /\ ev.type = "ExcludedPathsEvent"
      /\ \E ok \in BOOLEAN :
           LET u == split_tunnel_save(settings, split_calls[ev.id].update, ok)
               ops == <<Op("settings_set", u.result)>>
                      \o handle_new_excluded_paths(u.result)
           IN  /\ settings' = u.settings
               /\ split_calls' = [split_calls EXCEPT ![ev.id].at = "done",
                                                     ![ev.id].ops = @ \o ops]
               /\ settings_ops' = ops
               /\ reply' = ArgsOf(ops, "reply")[1]
               /\ notified' = [i \in 1..Len(OpsOf(ops, "notify_settings")) |->
                                 [type |-> "settings", val |-> u.settings]]
      /\ sent' = <<>>
      /\ api_ops' = <<>>
      /\ call_ops' = <<>>
      /\ job_ops' = <<>>
      /\ UNCHANGED <<state, tunnel_state, target_state, target_locked, device,
                     account_history, reconnection_job, reconnect_tasks,
                     last_generated_relays, shutdown_tasks, fr, listener_log,
                     remove_tasks, last_send, tunnel_machine, gen>>
      /\ Taken(ev)

NextSplitTunnel ==
    \/ RunStart
    \/ SendSplitTunnelCommand
    \/ HandleAddSplitTunnelApp
    \/ HandleRemoveSplitTunnelApp
    \/ HandleClearSplitTunnelApps
    \/ HandleSetSplitTunnelState
    \/ TunnelSetExcludedApps
    \/ ExcludedPathsTask
    \/ HandleExcludedPathsEvent

SpecSplitTunnel == Init /\ [][NextSplitTunnel]_vars

\* ------------------------------------------------ parameter generation
\* the generate() calls of the tunnel thread against the event loop, its
\* shutdown and the loss of the device
NextGenerate ==
    \/ RunStart
    \/ GenerateCall
    \/ SendTriggerShutdown
    \/ SendSettingsTransition
    \/ SendLogoutOrRevoked
    \/ DropSenders
    \/ LoopClosed
    \/ HandleTunnelStateTransition
    \/ HandleGenerateTunnelParameters
    \/ HandleTriggerShutdown
    \/ HandleDeviceEvent
    \/ Finalize

\* what the daemon's task does on its own once it can: run() enters the
\* loop, rx.next() yields the next event to its handler or None, and
\* finalize() follows the loop
OrchestratorStep ==
    \/ RunStart
    \/ LoopClosed
    \/ HandleTunnelStateTransition
    \/ HandleGenerateTunnelParameters
    \/ HandleTriggerShutdown
    \/ HandleDeviceEvent
    \/ Finalize

SpecGenerate == Init /\ [][NextGenerate]_vars /\ WF_vars(OrchestratorStep)

\* ===================================================================
\* Properties
\* ===================================================================
Range(f) == {f[i] : i \in DOMAIN f}

\* a step of the loop of run() that handles the event at the front of the bus
HandleStep == pc = "loop" /\ queue # <<>> /\ queue' = Tail(queue)

IsShutdownTrigger(ev) ==
    \/ ev.type = "TriggerShutdown"
    \/ ev.type = "Command" /\ ev.name \in {"Shutdown", "FactoryReset"}

IsDisconnectedTransition(ev) ==
    ev.type = "TunnelStateTransition" /\ ev.name = "Disconnected"

FactoryResetSteps ==
    <<"logout", "clear_history", "reset_settings", "clear_cache", "clear_logs">>

C2_NoDeviceYieldsNoWireguardKey ==
    (gen.status = "returned" /\ gen.why = "no_device") => gen.result = "NoWireguardKey"

C5_ExecutionStateTransitions ==
    [][/\ state' # state =>
             /\ HandleStep
             /\ \/ /\ state = "Running" /\ state' = "Exiting"
                   /\ IsShutdownTrigger(Front) /\ tunnel_state.kind # "Disconnected"
                \/ /\ state = "Running" /\ state' = "Finished"
                   /\ IsShutdownTrigger(Front) /\ tunnel_state.kind = "Disconnected"
                \/ /\ state = "Exiting" /\ state' = "Finished"
                   /\ IsDisconnectedTransition(Front)
       /\ (HandleStep /\ IsShutdownTrigger(Front) /\ state = "Running") =>
             state' = (IF tunnel_state.kind = "Disconnected" THEN "Finished" ELSE "Exiting")
       /\ (HandleStep /\ IsDisconnectedTransition(Front) /\ state = "Exiting") =>
             state' = "Finished"]_vars

C5_Witness ==
    /\ state = "Running"
    /\ IsDisconnectedTransition(last_event)
    /\ Len(listener_log) = 2

\* C6: a command handled while the execution state is Exiting or Finished
\* sends no reply, no tunnel command and no notification, does not touch
\* the API inactivity timer and changes nothing of the daemon's state.
C6_CommandDroppedWhenNotRunning ==
    [][(HandleStep /\ Front.type = "Command" /\ state \in {"Exiting", "Finished"}) =>
          /\ reply' = "None"
          /\ sent' = <<>>
          /\ notified' = <<>>
          /\ api_ops' = <<>>
          /\ UNCHANGED <<state, target_state, target_locked, settings,
                         reconnection_job, reconnect_tasks, tunnel_state, account_history,
                         shutdown_tasks>>]_vars

C6_Witness ==
    /\ state = "Exiting"
    /\ last_event.type = "Command"
    /\ last_event.name = "SetTargetState"
    /\ last_event.arg # target_state
    /\ reply = "None"

\* C7: SetTargetState(s) handled while Running changes the target to s,
\* sends exactly Connect (Secured) or Disconnect (Unsecured) and replies true
\* when s differs from the target or the tunnel is in Error; otherwise it
\* leaves the target, sends nothing and replies false.
C7_SetTargetState ==
    [][(HandleStep /\ Front.type = "Command" /\ Front.name = "SetTargetState"
        /\ state = "Running") =>
          IF Front.arg # target_state \/ tunnel_state.kind = "Error"
          THEN /\ target_state' = Front.arg
               /\ sent' = <<IF Front.arg = "Secured" THEN Connect ELSE Disconnect>>
               /\ reply' = "true"
          ELSE /\ target_state' = target_state
               /\ sent' = <<>>
               /\ reply' = "false"]_vars

C7_Witness ==
    /\ last_event.type = "Command"
    /\ last_event.name = "SetTargetState"
    /\ last_event.arg = "Secured"
    /\ tunnel_state.kind = "Error"
    /\ reply = "true"
    /\ sent = <<Connect>>

\* C8: a Reconnect command handled while Running sends exactly one Connect
\* and replies true when the target is Secured or the tunnel is in Error,
\* else replies false and sends nothing; the target state is unchanged.
C8_Reconnect ==
    [][(HandleStep /\ Front.type = "Command" /\ Front.name = "Reconnect"
        /\ state = "Running") =>
          /\ target_state' = target_state
          /\ IF target_state = "Secured" \/ tunnel_state.kind = "Error"
             THEN sent' = <<Connect>> /\ reply' = "true"
             ELSE sent' = <<>> /\ reply' = "false"]_vars

C8_Witness ==
    /\ last_event.type = "Command"
    /\ last_event.name = "Reconnect"
    /\ target_state = "Unsecured"
    /\ tunnel_state.kind = "Error"
    /\ reply = "true"
    /\ sent = <<Connect>>

\* C9: every change of the target state to Secured is accompanied, in the
\* same handler, by a Connect sent to the tunnel machine, every change to
\* Unsecured by a Disconnect; and run() sends Connect before handling any
\* event when the daemon was constructed with target Secured.
C9_TargetChangeSendsCommand ==
    [][/\ target_state' # target_state =>
             /\ HandleStep
             /\ target_state' = "Secured" => sent' = <<Connect>>
             /\ target_state' = "Unsecured" => sent' = <<Disconnect>>
       /\ (pc = "start" /\ pc' # "start") =>
             /\ last_event = NoEvent /\ last_event' = NoEvent
             /\ target_state = "Secured" => sent' = <<Connect>>]_vars

C9_Witness ==
    /\ last_event.type = "DeviceEvent"
    /\ last_event.name = "Logout"
    /\ tunnel_state.kind # "Error"
    /\ target_state = "Unsecured"
    /\ sent = <<Disconnect>>

\* ids of the tunnel transitions still on the bus, oldest first
QueuedTransitionIds ==
    LET q == SelectSeq(queue, LAMBDA e : e.type = "TunnelStateTransition")
    IN  [i \in 1..Len(q) |-> q[i].id]

\* C10: every tunnel transition handled produces exactly one
\* notify_new_state carrying that transition's state, and the listener has
\* been notified of the transitions in the order they were placed on the bus.
C10_TransitionsNotifiedInOrder ==
    [][/\ listener_log' = [i \in 1..Len(listener_log') |-> i]
       /\ pc' # "done" =>
             QueuedTransitionIds' =
               [i \in 1..(ntrans' - Len(listener_log')) |-> Len(listener_log') + i]
       /\ (HandleStep /\ Front.type = "TunnelStateTransition") =>
             /\ Len(notified') = 1
             /\ notified'[1].type = "new_state"
             /\ notified'[1].val.kind = Front.name
             /\ notified'[1].val.arg = Front.arg
             /\ tunnel_state' = notified'[1].val
             /\ listener_log' = Append(listener_log, Front.id)
       /\ ~(HandleStep /\ Front.type = "TunnelStateTransition") =>
             /\ listener_log' = listener_log
             /\ tunnel_state' = tunnel_state
             /\ notified' # notified =>
                  \A i \in 1..Len(notified') : notified'[i].type # "new_state"]_vars

C10_Witness ==
    /\ state = "Exiting"
    /\ last_event.type = "TunnelStateTransition"
    /\ listener_log = <<1, 2>>
    /\ Len(notified) = 1
    /\ notified[1].val.kind = last_event.name


\* ---------------------------------------------------------- reconnect job
IsTransition(ev) == ev.type = "TunnelStateTransition"

IsDeviceEvent(ev, name) == ev.type = "DeviceEvent" /\ ev.name = name

\* a reconnect future completes its sleep: it leaves the sleeping tasks
\* outside of any handler
TimerFireStep == ~HandleStep /\ reconnect_tasks' # reconnect_tasks

ReconnectFromJob == CommandEvent(<<"Reconnect", "job">>)

\* the one pending job: the handle refers to it and it has this delay
OnePending(job, tasks, delay) == tasks = {[id |-> job, delay |-> delay]}

\* C11: at most one scheduled reconnect is pending at any time, and it is
\* the one the handle refers to; scheduling while one is pending aborts that
\* one before spawning; unscheduling with nothing pending changes nothing.
C11_AtMostOnePending ==
    [][/\ Cardinality(reconnect_tasks') <= 1
       /\ \A t \in reconnect_tasks' : t.id = reconnection_job'
       /\ (HandleStep /\ job_ops' # <<>> /\ Last(job_ops') = "spawn") =>
             /\ Cardinality(reconnect_tasks') = 1
             /\ reconnect_tasks # {} => job_ops' = <<"abort_pending", "spawn">>
       /\ (HandleStep /\ reconnect_tasks = {}
           /\ ~(job_ops' # <<>> /\ Last(job_ops') = "spawn")) =>
             /\ reconnect_tasks' = {}
             /\ \A i \in 1..Len(job_ops') : job_ops'[i] = "abort_completed"]_vars

C11_Witness ==
    /\ job_ops = <<"abort_pending", "spawn">>
    /\ IsDeviceEvent(last_event, "RotatedKey")
    /\ Cardinality(reconnect_tasks) = 1

\* C12: handling a transition into Disconnected, Connecting, Disconnecting
\* or Error aborts the reconnect pending before it (only an AuthFailed error
\* arms a new one); handling a transition into Connected leaves the pending
\* reconnect and its handle as they are.
C12_TransitionCancelsUnlessConnected ==
    [][(HandleStep /\ IsTransition(Front)) =>
          IF Front.name = "Connected"
          THEN /\ reconnect_tasks' = reconnect_tasks
               /\ reconnection_job' = reconnection_job
               /\ job_ops' = <<>>
          ELSE /\ reconnect_tasks # {} =>
                    job_ops' # <<>> /\ Head(job_ops') = "abort_pending"
               /\ IF Front.name = "Error" /\ Front.arg = "AuthFailed"
                  THEN Cardinality(reconnect_tasks') = 1 /\ Last(job_ops') = "spawn"
                  ELSE reconnect_tasks' = {} /\ reconnection_job' = NoJob]_vars

C12_Witness ==
    /\ IsTransition(last_event)
    /\ last_event.name = "Disconnecting"
    /\ job_ops = <<"abort_pending">>
    /\ reconnect_tasks = {}

\* C13 (as stated): an AuthFailed error transition arms a reconnect of 60
\* seconds, any other error arms none; the armed job stays armed until it
\* fires or a tunnel transition is handled, and when it fires exactly one
\* Reconnect command is placed on the bus.
C13_AuthFailedReconnectDelivered ==
    [][/\ (HandleStep /\ IsTransition(Front) /\ Front.name = "Error") =>
             IF Front.arg = "AuthFailed"
             THEN OnePending(reconnection_job', reconnect_tasks',
                             AUTH_FAILED_RECONNECT_DELAY)
             ELSE reconnect_tasks' = {}
       /\ (tunnel_state.kind = "Error" /\ reconnect_tasks' # reconnect_tasks) =>
             TimerFireStep \/ (HandleStep /\ IsTransition(Front))
       /\ TimerFireStep =>
             /\ reconnect_tasks' = {}
             /\ queue' = Append(queue, ReconnectFromJob)]_vars

\* C13 (amended): as stated, except that the Reconnect is placed on the bus
\* only while the bus accepts events (a strong sender and the receiver
\* exist); otherwise the job completes without delivering anything.
C13_AuthFailedReconnectDeliveredIfOpen ==
    [][/\ (HandleStep /\ IsTransition(Front) /\ Front.name = "Error") =>
             IF Front.arg = "AuthFailed"
             THEN OnePending(reconnection_job', reconnect_tasks',
                             AUTH_FAILED_RECONNECT_DELAY)
             ELSE reconnect_tasks' = {}
       /\ (tunnel_state.kind = "Error" /\ reconnect_tasks' # reconnect_tasks) =>
             TimerFireStep \/ (HandleStep /\ IsTransition(Front))
       /\ TimerFireStep =>
             /\ reconnect_tasks' = {}
             /\ queue' = (IF bus_accepts THEN Append(queue, ReconnectFromJob) ELSE queue)]_vars

C13_Witness ==
    /\ tunnel_state.kind = "Error"
    /\ tunnel_state.arg = "AuthFailed"
    /\ reconnection_job # NoJob
    /\ reconnect_tasks = {}
    /\ queue # <<>>
    /\ Last(queue) = ReconnectFromJob

\* C14: a RotatedKey device event arms a reconnect of 240 seconds exactly
\* when the mirrored tunnel state is Connecting or Connected over WireGuard;
\* otherwise it arms nothing and leaves the pending reconnect as it is.
C14_RotatedKeyReconnect ==
    [][(HandleStep /\ IsDeviceEvent(Front, "RotatedKey")) =>
          IF tunnel_state.kind \in {"Connecting", "Connected"}
             /\ tunnel_state.arg = "Wireguard"
          THEN OnePending(reconnection_job', reconnect_tasks', WG_RECONNECT_DELAY)
          ELSE /\ reconnect_tasks' = reconnect_tasks
               /\ reconnection_job' = reconnection_job
               /\ job_ops' = <<>>]_vars

C14_Witness ==
    /\ IsDeviceEvent(last_event, "RotatedKey")
    /\ tunnel_state.kind = "Connecting"
    /\ tunnel_state.arg = "Wireguard"
    /\ job_ops = <<"spawn">>
    /\ OnePending(reconnection_job, reconnect_tasks, WG_RECONNECT_DELAY)


C16_LogoutDisconnects ==
    [][(HandleStep /\ IsDeviceEvent(Front, "Logout")) =>
          /\ target_state' = "Unsecured"
          /\ sent' = <<Disconnect>>]_vars

\* C16 (amended): handling a Logout device event leaves the target
\* Unsecured; a Disconnect is sent when the target was Secured or the tunnel
\* is in the Error state, and nothing is sent otherwise.
C16_LogoutDisconnectsIfChange ==
    [][(HandleStep /\ IsDeviceEvent(Front, "Logout")) =>
          /\ target_state' = "Unsecured"
          /\ sent' = (IF target_state = "Secured" \/ tunnel_state.kind = "Error"
                      THEN <<Disconnect>> ELSE <<>>)]_vars

C16_Witness ==
    /\ IsDeviceEvent(last_event, "Logout")
    /\ tunnel_state.kind = "Connecting"
    /\ target_state = "Unsecured"
    /\ sent = <<>>
    /\ state = "Running"


\* ------------------------------------------------------ settings commands
IsMutator(ev) == ev.type = "Command" /\ ev.name \in Mutators

\* a settings command is handled by its handler
MutatorStep == HandleStep /\ IsMutator(Front) /\ state = "Running"

RequestedField == MutatorField(Front.name)

RequestedValue == ValueOf(RequestedField, Front.arg)

OpNames(ops) == [i \in 1..Len(ops) |-> ops[i].op]

\* C17: a settings command whose value is the stored one replies Ok and
\* does nothing else: no notify_settings, no tunnel command, no relay
\* selector reconfiguration, no call on any other collaborator, and the
\* settings stay as they are.
C17_UnchangedValueOnlyReplies ==
    [][(MutatorStep /\ settings[RequestedField] = RequestedValue) =>
          /\ reply' = "Ok"
          /\ notified' = <<>>
          /\ sent' = <<>>
          /\ OpNames(settings_ops') = <<"settings_set", "reply">>
          /\ settings' = settings]_vars

C17_Witness ==
    /\ last_event.type = "Command"
    /\ last_event.name = "UpdateRelaySettings"
    /\ settings.relay_settings = "custom"
    /\ target_state = "Secured"
    /\ OpNames(settings_ops) = <<"settings_set", "reply">>
    /\ settings_ops[1].arg = "Unchanged"
    /\ reply = "Ok"

\* C18: a settings command that changes the stored value changes exactly
\* its field to the requested value and notifies the listener exactly once,
\* after the save, with the settings holding the new value.
C18_ChangeNotifiesOnceAfterSave ==
    [][(MutatorStep /\ settings' # settings) =>
          /\ settings' = [settings EXCEPT ![RequestedField] = RequestedValue]
          /\ Len(notified') = 1
          /\ notified'[1].type = "settings"
          /\ notified'[1].val = settings'
          /\ Len(OpsOf(settings_ops', "notify_settings")) = 1
          /\ settings_ops'[1].op = "settings_set"
          /\ settings_ops'[1].arg = "Changed"]_vars

C18_Witness ==
    /\ last_event.type = "Command"
    /\ last_event.name = "SetWireguardRotationInterval"
    /\ settings.wireguard_rotation_interval = "custom"
    /\ OpNames(settings_ops) =
         <<"settings_set", "reply", "account_manager", "notify_settings">>
    /\ Len(notified) = 1

\* C19: a settings command that replies Ok leaves its field holding the
\* requested value; a field changes only by a command for that field; and
\* GetSettings returns the stored settings and changes nothing.
C19_GetSettingsReturnsStored ==
    [][/\ (MutatorStep /\ reply' = "Ok") => settings'[RequestedField] = RequestedValue
       /\ \A f \in SettingsFields :
             settings'[f] # settings[f] => (MutatorStep /\ RequestedField = f)
       /\ (HandleStep /\ Front.type = "Command" /\ Front.name = "GetSettings"
           /\ state = "Running") =>
             /\ OpNames(settings_ops') = <<"reply">>
             /\ settings_ops'[1].arg = settings
             /\ settings' = settings]_vars

C19_Witness ==
    /\ last_event.type = "Command"
    /\ last_event.name = "GetSettings"
    /\ OpNames(settings_ops) = <<"reply">>
    /\ settings_ops[1].arg.enable_ipv6 = TRUE
    /\ settings_ops[1].arg.allow_lan = FALSE
    /\ settings_ops[1].arg = settings

\* C20: when the save of a settings command fails, the caller gets the
\* settings error and nothing else is done: no notify_settings, no tunnel
\* command, no relay selector reconfiguration, no reconnect, and the stored
\* settings stay as they are.
C20_FailedSaveOnlyRepliesError ==
    [][(MutatorStep /\ settings_ops'[1].arg = "Err") =>
          /\ reply' = "SettingsError"
          /\ notified' = <<>>
          /\ sent' = <<>>
          /\ OpNames(settings_ops') = <<"settings_set", "reply">>
          /\ settings' = settings]_vars

C20_Witness ==
    /\ last_event.type = "Command"
    /\ last_event.name = "SetBridgeState"
    /\ target_state = "Secured"
    /\ settings.bridge_state = "default"
    /\ settings_ops[1].arg = "Err"
    /\ reply = "SettingsError"
    /\ sent = <<>>


\* a settings command is handled and changes the stored settings
ChangeStep(name) == MutatorStep /\ Front.name = name /\ settings' # settings

\* C21: a change of allow_lan, block_when_disconnected or dns_options sends
\* exactly one tunnel command, AllowLan, BlockWhenDisconnected or Dns, that
\* carries the value now stored (for Dns, its resolvers); a change of
\* auto_connect sends no tunnel command.
C21_ValueCommands ==
    [][/\ ChangeStep("SetAllowLan") =>
            /\ Len(sent') = 1
            /\ sent'[1][1] = "AllowLan"
            /\ BoolOf(sent'[1][2]) = settings'.allow_lan
       /\ ChangeStep("SetBlockWhenDisconnected") =>
            /\ Len(sent') = 1
            /\ sent'[1][1] = "BlockWhenDisconnected"
            /\ BoolOf(sent'[1][2]) = settings'.block_when_disconnected
       /\ ChangeStep("SetDnsOptions") =>
            sent' = <<Dns(addresses_from_options(settings'.dns_options))>>
       /\ ChangeStep("SetAutoConnect") => sent' = <<>>]_vars

C21_Witness ==
    /\ last_event.type = "Command"
    /\ last_event.name = "SetAllowLan"
    /\ last_event.arg = "false"
    /\ settings_ops[1].arg = "Changed"
    /\ ~settings.allow_lan
    /\ sent = <<AllowLan("false")>>
    /\ target_state = "Secured"

ReconnectingMutators ==
    {"SetEnableIpv6", "UpdateRelaySettings", "SetBridgeSettings", "SetBridgeState",
     "SetObfuscationSettings"}

\* C22: a change of enable_ipv6, relay settings, bridge settings, bridge
\* state or obfuscation settings sends Connect exactly when the target is
\* Secured, in every tunnel state, and no tunnel command otherwise.
C22_ReconnectIffSecured ==
    [][\A name \in ReconnectingMutators :
          ChangeStep(name) =>
             sent' = (IF target_state = "Secured" THEN <<Connect>> ELSE <<>>)]_vars

C22_Witness ==
    /\ last_event.type = "Command"
    /\ last_event.name = "SetEnableIpv6"
    /\ settings_ops[1].arg = "Changed"
    /\ tunnel_state.kind = "Error"
    /\ target_state = "Secured"
    /\ sent = <<Connect>>

\* C23: a change of wireguard_mtu (openvpn_mssfix) sends Connect exactly
\* when the tunnel is Connected over WireGuard (OpenVPN) and the target is
\* Secured, and no tunnel command otherwise; a change of
\* wireguard_rotation_interval sends no tunnel command.
C23_ReconnectIfConnectedOverType ==
    [][/\ ChangeStep("SetWireguardMtu") =>
            sent' = (IF /\ tunnel_state.kind = "Connected"
                        /\ tunnel_state.arg = "Wireguard"
                        /\ target_state = "Secured"
                     THEN <<Connect>> ELSE <<>>)
       /\ ChangeStep("SetOpenVpnMssfix") =>
            sent' = (IF /\ tunnel_state.kind = "Connected"
                        /\ tunnel_state.arg = "OpenVpn"
                        /\ target_state = "Secured"
                     THEN <<Connect>> ELSE <<>>)
       /\ ChangeStep("SetWireguardRotationInterval") => sent' = <<>>]_vars

C23_Witness ==
    /\ last_event.type = "Command"
    /\ last_event.name = "SetWireguardMtu"
    /\ settings_ops[1].arg = "Changed"
    /\ tunnel_state.kind = "Connected"
    /\ tunnel_state.arg = "Wireguard"
    /\ target_state = "Secured"
    /\ sent = <<Connect>>


\* ------------------------------------------------------- device removal
TaskRepliedOk(t) ==
    \E k \in 1..Len(t.ops) : t.ops[k].op = "reply" /\ t.ops[k].arg = "Ok"

\* C24: a RemoveDevice task that replied Ok made exactly one
\* notify_remove_device_event, before the reply, for the token of the
\* command; its new_devices holds no device with the removed id and its
\* removed_device has that id, being the listed device or the placeholder.
\* A task whose listing or removal failed only replied, and no handler of
\* the loop, that of Logout and Revoked included, makes such a notification.
C24_RemoveDeviceEvent ==
    /\ \A i \in 1..Len(remove_tasks) :
         LET t == remove_tasks[i] IN
         /\ TaskRepliedOk(t) =>
              /\ Len(t.ops) = 2
              /\ t.ops[1].op = "notify_remove_device_event"
              /\ t.ops[2].op = "reply"
              /\ t.ops[1].arg.account_token = t.token
              /\ t.ops[1].arg.removed_device.id = t.device_id
              /\ \A k \in 1..Len(t.ops[1].arg.new_devices) :
                    t.ops[1].arg.new_devices[k].id # t.device_id
              /\ Range(t.ops[1].arg.new_devices) \cup {t.ops[1].arg.removed_device}
                   = Range(t.devices) \cup {t.ops[1].arg.removed_device}
              /\ t.ops[1].arg.removed_device \in
                   Range(t.devices) \cup {UnknownDevice(t.device_id)}
              /\ (t.ops[1].arg.removed_device = UnknownDevice(t.device_id))
                   <=> (position(t.devices, t.device_id) = 0)
         /\ (t.at = "returned" /\ ~TaskRepliedOk(t)) =>
              /\ Len(t.ops) = 1
              /\ t.ops[1].op = "reply"
              /\ t.ops[1].arg \in {"ListDevicesError", "RemoveDeviceError"}
         /\ t.at # "returned" => t.ops = <<>>
    /\ \A k \in 1..Len(notified) : notified[k].type # "remove_device_event"

C24_Witness ==
    /\ last_event.type = "DeviceEvent"
    /\ last_event.name = "Revoked"
    /\ Len(remove_tasks) = 1
    /\ remove_tasks[1].device_id = "d1"
    /\ Len(remove_tasks[1].devices) = 3
    /\ remove_tasks[1].devices[1].id = "d1"
    /\ TaskRepliedOk(remove_tasks[1])
    /\ remove_tasks[1].ops[1].arg.new_devices = <<ListedDevice("d3"), ListedDevice("d2")>>


\* ---------------------------------------- device events and PrepareRestart
DeviceEventStep == HandleStep /\ Front.type = "DeviceEvent"

\* C25: every device event handled produces exactly one notify_device_event,
\* for that event, as the last call of its handler: after the account
\* history update and after the tunnel commands and the reconnect job the
\* event causes; no tunnel state is notified in that step.
C25_DeviceEventNotifiedLast ==
    [][DeviceEventStep =>
          /\ notified' = <<[type |-> "device_event", val |-> Front.name]>>
          /\ Len(OpsOf(call_ops', "notify_device_event")) = 1
          /\ Last(call_ops').op = "notify_device_event"
          /\ ArgsOf(call_ops', "tunnel") = sent'
          /\ ArgsOf(call_ops', "runtime") = job_ops'
          /\ (Front.name = "Login") =>
                /\ call_ops'[1].op = "account_history_set"
                /\ account_history' = Front.arg
          /\ listener_log' = listener_log]_vars

C25_Witness ==
    /\ last_event.type = "DeviceEvent"
    /\ last_event.name = "Login"
    /\ state = "Exiting"
    /\ OpNames(call_ops) = <<"account_history_set", "tunnel", "notify_device_event">>
    /\ sent = <<Connect>>
    /\ Len(notified) = 1

PrepareRestartStep ==
    HandleStep /\ Front.type = "Command" /\ Front.name = "PrepareRestart"
    /\ state = "Running"

\* C27: PrepareRestart handled while Running sends BlockWhenDisconnected(true)
\* exactly when the target is Secured and then locks the target state store;
\* it sends nothing else to the tunnel and leaves the target state, the
\* execution state and the tunnel state as they are.
C27_PrepareRestart ==
    [][PrepareRestartStep =>
          /\ sent' = (IF target_state = "Secured"
                      THEN <<BlockWhenDisconnected("true")>> ELSE <<>>)
          /\ OpNames(call_ops') = (IF target_state = "Secured"
                                   THEN <<"tunnel", "target_state">>
                                   ELSE <<"target_state">>)
          /\ Last(call_ops').arg = "lock"
          /\ target_locked'
          /\ target_state' = target_state
          /\ state' = state
          /\ tunnel_state' = tunnel_state]_vars

C27_Witness ==
    /\ last_event.type = "Command"
    /\ last_event.name = "PrepareRestart"
    /\ target_state = "Secured"
    /\ tunnel_state.kind = "Connected"
    /\ sent = <<BlockWhenDisconnected("true")>>
    /\ OpNames(call_ops) = <<"tunnel", "target_state">>
    /\ target_locked


\* ------------------------------------------------------------ the senders
\* a send whose result the sender observed
SendStep == last_send' # last_send

\* C26: a send on a closed bus returns an error to the sender,
\* DaemonUnavailable on a command sender, and leaves the queue as it is; a
\* send on an open bus returns Ok and puts the event last on the queue. The
\* bus is closed for a command sender when the receiver is gone, and for an
\* event sender also when every strong sender has been dropped.
C26_SendOnClosedBus ==
    [][SendStep =>
          LET closed == IF last_send'.by = "command"
                        THEN pc = "done"
                        ELSE ~bus_open \/ pc = "done"
          IN  /\ closed =>
                   /\ last_send'.result =
                        (IF last_send'.by = "command" THEN "DaemonUnavailable" ELSE "Err")
                   /\ queue' = queue
              /\ ~closed =>
                   /\ last_send'.result = "Ok"
                   /\ Len(queue') = Len(queue) + 1
                   /\ SubSeq(queue', 1, Len(queue)) = queue]_vars

C26_Witness ==
    /\ last_send.by = "event"
    /\ last_send.result = "Err"
    /\ ~bus_open
    /\ pc = "loop"
    /\ queue # <<>>


\* ---------------------------------------------------------------- startup
\* C28: with auto_connect on, the daemon starts with the target Secured
\* whatever was persisted. Before run() enters its loop no event is handled,
\* and entering it sends Connect exactly when the target is Secured and no
\* tunnel command otherwise.
C28_StartupConnect ==
    [][pc = "start" =>
          /\ settings.auto_connect => target_state = "Secured"
          /\ last_event = NoEvent /\ last_event' = NoEvent
          /\ sent = <<>>
          /\ ~HandleStep
          /\ pc' # "start" =>
                /\ pc' = "loop"
                /\ sent' = (IF target_state = "Secured" THEN <<Connect>> ELSE <<>>)
                /\ target_state' = target_state]_vars

C28_Witness ==
    /\ pc = "loop"
    /\ last_event = NoEvent
    /\ settings.auto_connect
    /\ target_state = "Secured"
    /\ sent = <<Connect>>
    /\ Len(queue) = 2


GenerateStep == HandleStep /\ Front.type = "GenerateTunnelParameters"

C31_GenerationErrors ==
    [][(GenerateStep /\ device # "None") =>
         /\ gen'.status = "returned"
         /\ (gen'.why = "NoBridge") => (gen'.result = "NoMatchingBridgeRelay")
         /\ (gen'.why = "NoRelay") => (gen'.result = "NoMatchingRelay")
         /\ (gen'.why = "CustomUnresolved") =>
               (gen'.result = "CustomTunnelHostResultionError")]_vars

C31_Witness ==
    /\ last_event.type = "GenerateTunnelParameters"
    /\ device # "None"
    /\ gen.status = "returned"
    /\ gen.why = "NoBridge"
    /\ gen.result = "NoMatchingBridgeRelay"

\* --------------------------------------------- generate() always returns
\* C32: every generate(n) call of the tunnel thread that is blocked on its
\* reply eventually returns, with the orchestrator's result or with an
\* error; a call made on a closed bus returns at once; the handler of the
\* request is ready to run whenever the request is next on the bus, whatever
\* the tunnel thread is doing; and once finalize() has dropped the receiver,
\* before it joins the tunnel machine, no call is blocked any more.
C32_GenerateReturns ==
    /\ (gen.status = "waiting") ~> (gen.status = "returned")
    /\ [](gen.status = "waiting" =>
            /\ pc # "done"
            /\ \E i \in 1..Len(queue) : queue[i].type = "GenerateTunnelParameters")
    /\ [](Front.type = "GenerateTunnelParameters" =>
            ENABLED HandleGenerateTunnelParameters)
    /\ [](pc = "done" => gen.status # "waiting")
    /\ [][(gen.status # "waiting" /\ gen'.status = "waiting") \/ gen'.status = gen.status
          \/ gen'.status = "returned"]_vars

C32_Witness ==
    /\ pc = "done"
    /\ gen.status = "returned"
    /\ gen.why = "discarded"
    /\ gen.result = "NoMatchingRelay"
    /\ state = "Finished"

\* ------------------------------------------------- split-tunnel updates
\* the calls of one kind made for a split-tunnel update
CallOps(c, kind) == OpsOf(c.ops, kind)

\* the update asks for what the settings it was built from already hold
IsNoOp(c) ==
    \/ c.update.kind = "SetPaths" /\ c.update.paths = c.settings.apps
    \/ c.update.kind = "SetState" /\ c.update.state = c.settings.enable_exclusions

\* the first of the calls of c of the given kind comes after a result Ok of
\* the tunnel machine
AfterAccepted(c, kind) ==
    \A i \in 1..Len(c.ops) :
       c.ops[i].op = kind =>
          \E j \in 1..(i - 1) : c.ops[j].op = "result" /\ c.ops[j].arg = "Ok"

\* a split-tunnel command is handled
SplitCommandStep ==
    pc = "loop" /\ queue # <<>> /\ Len(split_calls') = Len(split_calls) + 1

\* an ExcludedPathsEvent is handled
ExcludedPathsStep ==
    /\ pc = "loop"
    /\ Front.type = "ExcludedPathsEvent"
    /\ queue' = Tail(queue)
    /\ nevents' = nevents

\* what holds of every update whatever path it takes: a no-op is answered Ok
\* with nothing sent or saved; a rejected list is answered with the
\* split-tunnel error and nothing is saved; nobody is answered twice; and
\* the listener is notified exactly by the steps that change the stored
\* split-tunnel settings
SplitTunnelCommon ==
    /\ [](\A tx \in 1..Len(split_calls) :
            LET c == split_calls[tx] IN
            /\ Len(CallOps(c, "reply")) <= 1
            /\ IsNoOp(c) => (c.at = "done" /\ c.ops = <<ReplyOk>>)
            /\ (CallOps(c, "result") # <<>> /\ CallOps(c, "result")[1].arg = "Err"
                /\ c.at = "done")
                 => /\ CallOps(c, "reply") = <<Op("reply", "SplitTunnelError")>>
                    /\ CallOps(c, "settings_set") = <<>>
                    /\ CallOps(c, "notify_settings") = <<>>)
    /\ [][/\ ExcludedPathsStep =>
               /\ (notified' # <<>>) <=> (settings'.split_tunnel # settings.split_tunnel)
               /\ (notified' # <<>>) =>
                     notified' = <<[type |-> "settings", val |-> settings']>>
          /\ ~ExcludedPathsStep => settings'.split_tunnel = settings.split_tunnel
          /\ (SplitCommandStep /\ IsNoOp(Last(split_calls')))
               => /\ reply' = "Ok"
                  /\ sent' = <<>>
                  /\ notified' = <<>>
                  /\ tunnel_machine' = tunnel_machine
                  /\ queue' = Tail(queue)]_vars

\* C33 (as stated): a no-op update is answered Ok with nothing sent or saved,
\* a rejected one with the split-tunnel error and nothing saved, and every
\* other update is saved only after the tunnel machine accepted it;
\* notify_settings is produced exactly when the stored value changed.
C33_SavedOnlyAfterAccepted ==
    /\ SplitTunnelCommon
    /\ [](\A tx \in 1..Len(split_calls) :
            AfterAccepted(split_calls[tx], "settings_set"))

\* C33 (amended): as above, but the tunnel machine is asked only when the
\* exclusions are enabled after the update or the update changes the enable
\* flag, with the new paths when they are enabled and the empty list when
\* they are not, and then the update is saved only after the tunnel machine
\* accepted that list; a change of paths while the exclusions are disabled
\* is put on the bus and saved without asking the tunnel machine.
C33_SavedAfterAcceptedUnlessDisabled ==
    /\ SplitTunnelCommon
    /\ [](\A tx \in 1..Len(split_calls) :
            LET c == split_calls[tx]
                off == /\ c.update.kind = "SetPaths"
                       /\ ~c.settings.enable_exclusions
                on == IF c.update.kind = "SetPaths" THEN c.settings.enable_exclusions
                      ELSE c.update.state
                list == IF c.update.kind = "SetPaths" THEN c.update.paths
                        ELSE c.settings.apps
            IN  ~IsNoOp(c) =>
                  IF off
                  THEN /\ CallOps(c, "tunnel") = <<>>
                       /\ c.ops[1].op = "send"
                  ELSE /\ c.ops[1] = Op("tunnel", SetExcludedApps(IF on THEN list ELSE {}))
                       /\ AfterAccepted(c, "send")
                       /\ AfterAccepted(c, "settings_set"))

C33_Witness ==
    /\ Len(split_calls) = 2
    /\ split_calls[1].update = SetState(TRUE)
    /\ split_calls[1].at = "done"
    /\ CallOps(split_calls[1], "reply") = <<Op("reply", "SplitTunnelError")>>
    /\ split_calls[2].update = SetPaths({"a"})
    /\ split_calls[2].at = "done"
    /\ CallOps(split_calls[2], "tunnel") = <<>>
    /\ CallOps(split_calls[2], "settings_set") = <<Op("settings_set", "Changed")>>
    /\ settings.split_tunnel = [enable_exclusions |-> FALSE, apps |-> {"a"}]
    /\ last_event.type = "ExcludedPathsEvent"
    /\ Len(notified) = 1

\* ---------------------------------------------- the API inactivity timer
\* the handler of this step calls the API availability handle
ApiCalled(name) == \E i \in 1..Len(api_ops') : api_ops'[i] = name

\* C34: after a tunnel transition is handled the inactivity timer is running
\* if and only if the new mirrored state is Disconnected (reset on
\* Disconnected, stopped on every other state); a command resets the timer
\* if and only if it is handled while Running with the mirrored state
\* Disconnected, and no other event touches it; so the timer never runs
\* while the mirrored tunnel state is not Disconnected.
C34_InactivityTimer ==
    /\ [](inactivity_timer = "running" => tunnel_state.kind = "Disconnected")
    /\ [][IF ~HandleStep THEN inactivity_timer' = inactivity_timer
          ELSE IF IsTransition(Front)
          THEN IF tunnel_state'.kind = "Disconnected"
               THEN /\ ApiCalled("reset_inactivity_timer")
                    /\ ~ApiCalled("stop_inactivity_timer")
                    /\ inactivity_timer' = "running"
               ELSE /\ ApiCalled("stop_inactivity_timer")
                    /\ ~ApiCalled("reset_inactivity_timer")
                    /\ inactivity_timer' = "stopped"
          ELSE IF Front.type = "Command"
          THEN /\ ApiCalled("reset_inactivity_timer")
                    <=> (state = "Running" /\ tunnel_state.kind = "Disconnected")
               /\ ~ApiCalled("stop_inactivity_timer")
          ELSE /\ ~ApiCalled("reset_inactivity_timer")
               /\ ~ApiCalled("stop_inactivity_timer")]_vars

C34_Witness ==
    /\ last_event.type = "Command"
    /\ state = "Running"
    /\ tunnel_state.kind = "Connected"
    /\ inactivity_timer = "stopped"
    /\ api_ops = <<>>
    /\ reply # "None"

\* --------------------------------------------- no Connect after shutdown
\* the handler of this step sends the tunnel command cmd
Sends(cmd) == \E i \in 1..Len(sent') : sent'[i] = cmd

\* C35: once a shutdown has been triggered (the execution state is Exiting or
\* Finished) no handler sends Connect to the tunnel machine, whatever event
\* it handles.
C35_NoConnectAfterShutdown ==
    [][(HandleStep /\ state \in {"Exiting", "Finished"}) => ~Sends(Connect)]_vars

\* ------------------------------------------ cancelled reconnect jobs
\* the Reconnect command of a reconnect job is next on the bus
JobReconnectNext ==
    /\ Front.type = "Command"
    /\ Front.name = "Reconnect"
    /\ Front.arg = "job"

\* the job the handle refers to has completed its sleep and sent its command
\* (the handle is dropped only by unschedule_reconnect, which every
\* schedule_reconnect calls first: when there is no handle every job so far
\* has been cancelled, and when the handle refers to a sleeping job every
\* earlier job has been replaced)
LatestJobCompleted ==
    /\ reconnection_job # NoJob
    /\ \A t \in reconnect_tasks : t.id # reconnection_job

\* C36: a scheduled reconnect that has been cancelled, by a transition to a
\* state other than Connected or by being replaced, never has its Reconnect
\* command handled by on_reconnect after the cancellation: whenever the
\* command of a job is handled while running, the job that sent it is the
\* one scheduled last and it has not been cancelled.
C36_CancelledJobNeverReconnects ==
    [][(HandleStep /\ JobReconnectNext /\ is_running(state)) => LatestJobCompleted]_vars

\* ------------------------------------------- Connect and the target state
\* run() starts, or a handler runs
SendingStep == HandleStep \/ (pc = "start" /\ pc' = "loop")

\* on_reconnect runs while the mirrored tunnel state is Error
ReconnectInErrorState ==
    /\ HandleStep
    /\ Front.type = "Command"
    /\ Front.name = "Reconnect"
    /\ is_running(state)
    /\ tunnel_state.kind = "Error"

\* C37: Connect is sent to the tunnel machine only with the target state
\* Secured (as it is once the sending step has set it), except by a Reconnect
\* command handled while the mirrored tunnel state is Error; with the target
\* Unsecured no device event, no startup and no other command sends Connect.
C37_ConnectOnlyWhenSecured ==
    [][(SendingStep /\ Sends(Connect)) =>
         (target_state' = "Secured" \/ ReconnectInErrorState)]_vars

C37_Witness ==
    /\ last_event.type = "Command"
    /\ last_event.name = "Reconnect"
    /\ target_state = "Unsecured"
    /\ tunnel_state.kind = "Error"
    /\ sent = <<Connect>>
    /\ reply = "true"

\* ------------------------------------- the tunnel machine at loop exit
\* a transition of the tunnel machine is on the bus, not yet handled
TransitionUnhandled ==
    \E i \in 1..Len(queue) : queue[i].type = "TunnelStateTransition"

\* Connect has been sent (the target state is Secured only after run() or
\* set_target_state sent Connect for it) and nothing the tunnel machine has
\* reported since the start has been handled: the Connect is still to be
\* acted on, or what the machine did with it is still unhandled
ConnectUnanswered == target_state = "Secured" /\ listener_log = <<>>

\* C38: when the loop of run() is left through Finished the tunnel machine
\* itself is Disconnected: no transition of it is unhandled on the bus and no
\* Connect sent earlier is unanswered.
C38_FinishedMeansTunnelDown ==
    (pc = "exited" /\ exit_reason = "finished") =>
       (~TransitionUnhandled /\ ~ConnectUnanswered)

\* ------------------------------------ split-tunnel updates, one after another
\* what one split-tunnel command asks for, applied to split-tunnel settings
ApplySplitCommand(st, cmd) ==
    CASE cmd[1] = "AddSplitTunnelApp" -> [st EXCEPT !.apps = @ \cup {cmd[2]}]
      [] cmd[1] = "RemoveSplitTunnelApp" -> [st EXCEPT !.apps = @ \ {cmd[2]}]
      [] cmd[1] = "ClearSplitTunnelApps" -> [st EXCEPT !.apps = {}]
      [] cmd[1] = "SetSplitTunnelState" ->
           [st EXCEPT !.enable_exclusions = BoolOf(cmd[2])]

RECURSIVE ApplySplitCommands(_, _)
\* the first n commands of split_calls applied in the order they were handled
ApplySplitCommands(st, n) ==
    IF n = 0 THEN st
    ELSE ApplySplitCommand(ApplySplitCommands(st, n - 1), split_calls[n].cmd)

\* every split-tunnel command sent has gone through both phases and was
\* answered Ok: nothing is left on the bus, in the tunnel machine or in a task
SplitTunnelQuiescent ==
    /\ pc = "loop"
    /\ queue = <<>>
    /\ tunnel_machine.commands = <<>>
    /\ \A tx \in 1..Len(split_calls) :
         /\ split_calls[tx].at = "done"
         /\ CallOps(split_calls[tx], "reply") = <<ReplyOk>>

\* C39: once every split-tunnel command has been processed in both phases,
\* the persisted split-tunnel settings are the result of applying the
\* commands in the order they were handled, and the exclusion list of the
\* tunnel machine is the persisted one (empty while exclusions are disabled).
C39_UpdatesApplyInOrder ==
    SplitTunnelQuiescent =>
       /\ settings.split_tunnel = ApplySplitCommands(NoSplitTunnel, Len(split_calls))
       /\ tunnel_machine.excluded_apps =
            (IF settings.split_tunnel.enable_exclusions
             THEN settings.split_tunnel.apps ELSE {})

\* ------------------------------------------------ the reply channels
\* the reply channel of a split-tunnel command is gone: the handler, the
\* spawned task or handle_new_excluded_paths consumed it or let it go
ReplyChannelGone(c) == c.at \in {"done", "dropped"}

\* C40: a command with a reply channel handled while Running gets exactly
\* one reply: no path of its handler, or of the task the handler spawned,
\* lets the reply channel go without sending on it, and none sends twice.
C40_ReplyChannelNeverDropped ==
    \A tx \in 1..Len(split_calls) :
       LET c == split_calls[tx] IN
       /\ Len(CallOps(c, "reply")) <= 1
       /\ ReplyChannelGone(c) => Len(CallOps(c, "reply")) = 1

====
